---- MODULE Spec2Model ----
(***************************************************************************)
(* Dynamic model routing of the memory-mongodb extension: the per-model    *)
(* circuit breaker (ProviderHealthTracker), the routing resolver and the   *)
(* before_agent_start / agent_end hooks that drive them.                   *)
(*                                                                         *)
(* Time is Date.now() in abstract units; the three durations of the        *)
(* circuit breaker configuration are drawn from small positive ranges.     *)
(***************************************************************************)
EXTENDS Integers, Sequences, FiniteSets, TLC

\* ------------------------------------------------------------------------
\* Bounds of the model
\* ------------------------------------------------------------------------
MaxNow == 3
MaxThreshold == 2
MaxCooldown == 2
MaxWindow == 2
MaxFailures == 3
MaxTtl == 2
MaxComplexity == 4
MaxIdLen == 4

\* ------------------------------------------------------------------------
\* Program constants (scaled to the abstract time unit / the small key set)
\* ------------------------------------------------------------------------
DECISION_TTL_MS == 1
MAX_DECISIONS == 1

\* Model ids are strings; a string is a sequence of characters so that the
\* split at "/" done by the resolver can be computed.
IdA == <<"a", "/", "x">>
IdB == <<"b", "/", "y">>
ModelIds == {IdA, IdB}
SessionKeys == {"s1", "s2"}

VARIABLES
  cfg,          \* ProviderHealthTracker.cfg
  now,          \* Date.now()
  roster,       \* ids of the models a decision can be bound to
  health,       \* ProviderHealthTracker.health : Map<modelId, ModelHealth>
  decisions,    \* ProviderHealthTracker.decisions : Map<sessionKey, Decision>
  last,         \* history: the operation performed by the last step
  lastOutcome,  \* history: kind of the last outcome consumed per model
  prevFailAt,   \* history: time of the last failure consumed per model (0: none)
  rowFails,     \* history: failures consumed per model since its last
                \*          success or reset
  rowOk,        \* history: no gap > windowMs between the failures of that row
  streak,       \* history: failures consumed per model since its last
                \*          success, reset or failure that came more than
                \*          windowMs after the failure before it
  spent,        \* history: the session's decision was consumed and not renewed
  cleared,      \* history: sessions whose pending decision resetAll removed
                \*          and that have not been bound again
  ttlMs,        \* RoutingCache.ttlMs
  store,        \* the routing collection: Map<agent_id, RoutingContextDoc>
  cache,        \* RoutingCache.cache : Map<agentId, CacheEntry>
  pc,           \* per session: where its before_agent_start / run stands
  req,          \* per session: prompt and tools flag of the hook invocation
  got,          \* per session: what routingCache.get resolved to
  result,       \* per session: what before_agent_start returned
  skippedOpen,  \* history: models some resolution passed over while open
  call,         \* arguments of a call of the resolver
  ret,          \* what the call returned
  cacheLog      \* history: the get calls of the routing cache

hookVars == <<ttlMs, store, cache, pc, req, got, result, skippedOpen>>
auxVars == <<call, ret, cacheLog>>
vars == <<cfg, now, roster, health, decisions,
          last, lastOutcome, prevFailAt, rowFails, rowOk, streak, spent, cleared,
          ttlMs, store, cache, pc, req, got, result, skippedOpen,
          call, ret, cacheLog>>

\* ------------------------------------------------------------------------
\* Map helpers (JavaScript Map: set / delete)
\* ------------------------------------------------------------------------
EmptyMap == [x \in {} |-> 0]

MapSet(f, k, v) == [x \in (DOMAIN f) \cup {k} |-> IF x = k THEN v ELSE f[x]]

MapDelete_All(f, k) == [x \in {} |-> 0]

MapDelete(f, k) == [x \in (DOMAIN f) \ {k} |-> f[x]]

Min(a, b) == IF a < b THEN a ELSE b

\* ------------------------------------------------------------------------
\* Circuit breaker configuration
\* ------------------------------------------------------------------------
\* mongodbConfigSchema.parse keeps a configured value only when it is a
\* number > 0 and otherwise falls back to the default, so every field is
\* positive.
CircuitBreakerConfigs ==
  [failureThreshold : 1..MaxThreshold,
   cooldownMs : 1..MaxCooldown,
   windowMs : 1..MaxWindow]

\* ------------------------------------------------------------------------
\* ProviderHealthTracker: queries
\* ------------------------------------------------------------------------
\* Variant: the cooldown comparison is strict.
GetState_CooldownGt(h, c, t, modelId) ==
  IF modelId \notin DOMAIN h
       \/ h[modelId].consecutiveFailures < c.failureThreshold
  THEN "closed"
  ELSE IF t - h[modelId].lastFailureAt > c.cooldownMs
       THEN "half-open"
       ELSE "open"

\* Variant: the threshold comparison admits one failure more.
GetState_ThresholdLe(h, c, t, modelId) ==
  IF modelId \notin DOMAIN h
       \/ h[modelId].consecutiveFailures <= c.failureThreshold
  THEN "closed"
  ELSE IF t - h[modelId].lastFailureAt >= c.cooldownMs
       THEN "half-open"
       ELSE "open"

GetState(h, c, t, modelId) ==
  IF modelId \notin DOMAIN h
       \/ h[modelId].consecutiveFailures < c.failureThreshold
  THEN "closed"
  ELSE IF t - h[modelId].lastFailureAt >= c.cooldownMs
       THEN "half-open"
       ELSE "open"

\* Variant: only a closed model is healthy.
IsHealthy_ClosedOnly(h, c, t, modelId) == GetState(h, c, t, modelId) = "closed"

IsHealthy(h, c, t, modelId) == GetState(h, c, t, modelId) # "open"

Snapshot(h, c, t) ==
  [id \in DOMAIN h |->
     [state |-> GetState(h, c, t, id),
      failures |-> h[id].consecutiveFailures,
      lastFailure |-> h[id].lastFailureAt,
      lastSuccess |-> h[id].lastSuccessAt]]

\* ------------------------------------------------------------------------
\* ProviderHealthTracker: updates, as functions of the maps
\* ------------------------------------------------------------------------
EvictStale(d, t) ==
  LET cutoff == t - DECISION_TTL_MS
      keep == {k \in DOMAIN d : ~(d[k].timestamp < cutoff)}
  IN [k \in keep |-> d[k]]

\* Variant: above the mark every other decision is dropped, whatever its age.
DecisionsAfterRecordDecision_DropAll(d, t, sessionKey, modelId) ==
  LET d1 == MapSet(d, sessionKey, [modelId |-> modelId, timestamp |-> t])
  IN IF Cardinality(DOMAIN d1) > MAX_DECISIONS
     THEN [k \in {sessionKey} |-> d1[k]] ELSE d1

\* Variant: a session that has a pending decision keeps it.
DecisionsAfterRecordDecision_KeepFirst(d, t, sessionKey, modelId) ==
  LET d1 == IF sessionKey \in DOMAIN d THEN d
            ELSE MapSet(d, sessionKey, [modelId |-> modelId, timestamp |-> t])
  IN IF Cardinality(DOMAIN d1) > MAX_DECISIONS THEN EvictStale(d1, t) ELSE d1

DecisionsAfterRecordDecision(d, t, sessionKey, modelId) ==
  LET d1 == MapSet(d, sessionKey, [modelId |-> modelId, timestamp |-> t])
  IN IF Cardinality(DOMAIN d1) > MAX_DECISIONS THEN EvictStale(d1, t) ELSE d1

InitialHealth ==
  [consecutiveFailures |-> 0, lastFailureAt |-> 0, lastSuccessAt |-> 0]

\* Variant: a success takes one failure off the count.
HealthOnSuccess_Decrement(h0, t) ==
  [h0 EXCEPT
     !.consecutiveFailures =
        IF h0.consecutiveFailures > 0 THEN h0.consecutiveFailures - 1 ELSE 0,
     !.lastSuccessAt = t]

HealthOnSuccess(h0, t) ==
  [h0 EXCEPT !.consecutiveFailures = 0, !.lastSuccessAt = t]

\* Variant: a gap of exactly windowMs already starts a fresh streak.
HealthOnFailure_WindowGe(h0, c, t) ==
  [h0 EXCEPT
     !.consecutiveFailures =
        IF h0.lastFailureAt > 0 /\ t - h0.lastFailureAt >= c.windowMs
        THEN 1
        ELSE h0.consecutiveFailures + 1,
     !.lastFailureAt = t]

\* Variant: every failure after a cooldown starts a fresh streak.
HealthOnFailure_FreshAfterCooldown(h0, c, t) ==
  [h0 EXCEPT
     !.consecutiveFailures =
        IF h0.lastFailureAt > 0 /\ t - h0.lastFailureAt >= c.cooldownMs
        THEN 1
        ELSE h0.consecutiveFailures + 1,
     !.lastFailureAt = t]

\* Variant: a failure of a model at or above the threshold keeps the time of
\* the failure that opened it.
HealthOnFailure_KeepsOpeningTime(h0, c, t) ==
  [h0 EXCEPT
     !.consecutiveFailures =
        IF h0.lastFailureAt > 0 /\ t - h0.lastFailureAt > c.windowMs
        THEN 1
        ELSE h0.consecutiveFailures + 1,
     !.lastFailureAt =
        IF h0.consecutiveFailures >= c.failureThreshold
        THEN h0.lastFailureAt ELSE t]

\* Variant: the count stops at the threshold; later failures are not counted.
HealthOnFailure_Saturating(h0, c, t) ==
  [h0 EXCEPT
     !.consecutiveFailures =
        IF h0.lastFailureAt > 0 /\ t - h0.lastFailureAt > c.windowMs
        THEN 1
        ELSE IF h0.consecutiveFailures >= c.failureThreshold
             THEN h0.consecutiveFailures
             ELSE h0.consecutiveFailures + 1,
     !.lastFailureAt = t]

\* Variant: the failure branch stamps lastSuccessAt as well.
HealthOnFailure_TouchesSuccess(h0, c, t) ==
  [h0 EXCEPT
     !.consecutiveFailures =
        IF h0.lastFailureAt > 0 /\ t - h0.lastFailureAt > c.windowMs
        THEN 1
        ELSE h0.consecutiveFailures + 1,
     !.lastFailureAt = t,
     !.lastSuccessAt = t]

HealthOnFailure(h0, c, t) ==
  [h0 EXCEPT
     !.consecutiveFailures =
        IF h0.lastFailureAt > 0 /\ t - h0.lastFailureAt > c.windowMs
        THEN 1
        ELSE h0.consecutiveFailures + 1,
     !.lastFailureAt = t]

\* Variant: no early return; a missing decision yields the key `undefined`.
HealthAfterRecordOutcome_NoGuard(h, d, c, t, sessionKey, success) ==
  LET modelId == IF sessionKey \in DOMAIN d THEN d[sessionKey].modelId
                 ELSE <<"undefined">>
      h0 == IF modelId \in DOMAIN h THEN h[modelId] ELSE InitialHealth
  IN MapSet(h, modelId,
            IF success THEN HealthOnSuccess(h0, t)
            ELSE HealthOnFailure(h0, c, t))

\* Variant: one health record is shared by all tracked models.
HealthAfterRecordOutcome_Shared(h, d, c, t, sessionKey, success) ==
  IF sessionKey \notin DOMAIN d
  THEN h
  ELSE LET modelId == d[sessionKey].modelId
           h0 == IF modelId \in DOMAIN h THEN h[modelId] ELSE InitialHealth
           h1 == IF success THEN HealthOnSuccess(h0, t)
                 ELSE HealthOnFailure(h0, c, t)
       IN [x \in (DOMAIN h) \cup {modelId} |-> h1]

HealthAfterRecordOutcome(h, d, c, t, sessionKey, success) ==
  IF sessionKey \notin DOMAIN d
  THEN h
  ELSE LET modelId == d[sessionKey].modelId
           h0 == IF modelId \in DOMAIN h THEN h[modelId] ELSE InitialHealth
       IN MapSet(h, modelId,
                 IF success THEN HealthOnSuccess(h0, t)
                 ELSE HealthOnFailure(h0, c, t))

\* Variant: the consumed decision is left in the map.
DecisionsAfterRecordOutcome_Keep(d, sessionKey) == d

DecisionsAfterRecordOutcome(d, sessionKey) ==
  IF sessionKey \notin DOMAIN d THEN d ELSE MapDelete(d, sessionKey)

\* ------------------------------------------------------------------------
\* Strings (sequences of characters)
\* ------------------------------------------------------------------------
\* String.prototype.toLowerCase over the characters the model uses.
LowerChar(ch) ==
  CASE ch = "C" -> "c"
    [] ch = "I" -> "i"
    [] ch = "F" -> "f"
    [] OTHER -> ch

ToLowerCase(s) == [i \in 1..Len(s) |-> LowerChar(s[i])]

\* String.prototype.includes
Includes(s, sub) ==
  /\ Len(sub) <= Len(s)
  /\ \E i \in 0..(Len(s) - Len(sub)) : SubSeq(s, i + 1, i + Len(sub)) = sub

\* RegExp.prototype.test for the two shapes of code_block_regex in the
\* repository: "" (matches every string) and fence[\s\S]*?fence (two
\* occurrences of the fence that do not overlap).
RegexTest(re, s) ==
  IF re.kind = "empty" THEN TRUE
  ELSE \E i \in 0..Len(s), j \in 0..Len(s) :
         /\ i + Len(re.fence) <= j
         /\ j + Len(re.fence) <= Len(s)
         /\ SubSeq(s, i + 1, i + Len(re.fence)) = re.fence
         /\ SubSeq(s, j + 1, j + Len(re.fence)) = re.fence

\* String.prototype.split("/")
RECURSIVE SplitSlash(_)
SplitSlash(s) ==
  IF \A i \in 1..Len(s) : s[i] # "/"
  THEN <<s>>
  ELSE LET i == CHOOSE k \in 1..Len(s) :
                  s[k] = "/" /\ \A j \in 1..(k - 1) : s[j] # "/"
       IN <<SubSeq(s, 1, i - 1)>> \o SplitSlash(SubSeq(s, i + 1, Len(s)))

\* Array.prototype.join("/")
RECURSIVE JoinSlash(_)
JoinSlash(parts) ==
  IF Len(parts) = 0 THEN <<>>
  ELSE IF Len(parts) = 1 THEN parts[1]
  ELSE parts[1] \o <<"/">> \o JoinSlash(Tail(parts))

\* escalated.model.id.split("/")[0]
ProviderOf(id) == SplitSlash(id)[1]

\* Variant: the model name is the second part alone.
ModelNameOf_SecondPart(id) ==
  IF Len(SplitSlash(id)) < 2 THEN <<>> ELSE SplitSlash(id)[2]

\* escalated.model.id.split("/").slice(1).join("/")
ModelNameOf(id) == JoinSlash(Tail(SplitSlash(id)))

\* `${decision.provider}/${decision.model}`
RecordedId(provider, model) == provider \o <<"/">> \o model

\* ------------------------------------------------------------------------
\* classifyPrompt
\* ------------------------------------------------------------------------
\* indicators of one category that occur in the lower-cased prompt, in order
MatchedOf(lower, entry) ==
  SelectSeq(entry.indicators, LAMBDA ind : Includes(lower, ToLowerCase(ind)))

RECURSIVE MatchedIndicators(_, _)
MatchedIndicators(lower, indicators) ==
  IF Len(indicators) = 0 THEN <<>>
  ELSE LET e == Head(indicators)
           hits == MatchedOf(lower, e)
       IN [i \in 1..Len(hits) |-> <<e.category, ":">> \o hits[i]]
            \o MatchedIndicators(lower, Tail(indicators))

\* categoryScores after the indicator loop: the categories that scored, in
\* the order of classification.indicators
IndicatorScores(lower, indicators) ==
  SelectSeq([i \in 1..Len(indicators) |->
               [category |-> indicators[i].category,
                score |-> Len(MatchedOf(lower, indicators[i]))]],
            LAMBDA e : e.score > 0)

\* categoryScores.CODE = (categoryScores.CODE ?? 0) + n
AddScore(scores, cat, n) ==
  IF \E i \in 1..Len(scores) : scores[i].category = cat
  THEN [i \in 1..Len(scores) |->
          IF scores[i].category = cat
          THEN [scores[i] EXCEPT !.score = @ + n]
          ELSE scores[i]]
  ELSE Append(scores, [category |-> cat, score |-> n])

CategoryScores(prompt, classification) ==
  LET lower == ToLowerCase(prompt)
      s0 == IndicatorScores(lower, classification.indicators)
      hasPathRef == \E i \in 1..Len(classification.path_patterns) :
                      Includes(prompt, classification.path_patterns[i])
      s1 == IF hasPathRef THEN AddScore(s0, "CODE", 1) ELSE s0
  IN IF RegexTest(classification.code_block_regex, prompt)
     THEN AddScore(s1, "CODE", 2)
     ELSE s1

\* the loop picking the category with the strictly highest score
RECURSIVE BestOf(_, _)
BestOf(scores, best) ==
  IF Len(scores) = 0 THEN best
  ELSE BestOf(Tail(scores),
              IF Head(scores).score > best.score THEN Head(scores) ELSE best)

\* Variant: the complexity is not capped by the upper end of the range.
ClassifyPrompt_Uncapped(prompt, classification) ==
  LET best == BestOf(CategoryScores(prompt, classification),
                     [category |-> "CHAT", score |-> 0])
      range == IF best.category \in DOMAIN classification.categories
               THEN classification.categories[best.category]
               ELSE <<1, 3>>
  IN [category |-> best.category,
      complexity |-> range[1] + best.score,
      matchedIndicators |->
        MatchedIndicators(ToLowerCase(prompt), classification.indicators)]

ClassifyPrompt(prompt, classification) ==
  LET best == BestOf(CategoryScores(prompt, classification),
                     [category |-> "CHAT", score |-> 0])
      range == IF best.category \in DOMAIN classification.categories
               THEN classification.categories[best.category]
               ELSE <<1, 3>>
  IN [category |-> best.category,
      complexity |-> Min(range[2], range[1] + best.score),
      matchedIndicators |->
        MatchedIndicators(ToLowerCase(prompt), classification.indicators)]

\* ------------------------------------------------------------------------
\* Tier escalation
\* ------------------------------------------------------------------------
\* Variant: every tier is tried alone.
TierChain_Single(startTier) == <<startTier>>

\* TIER_ESCALATION[startTier] ?? [startTier]
TierChain(startTier) ==
  CASE startTier = "fast" -> <<"fast", "mid", "heavy">>
    [] startTier = "mid" -> <<"mid", "heavy">>
    [] startTier = "heavy" -> <<"heavy">>
    [] OTHER -> <<startTier>>

\* The health predicate handed to the resolver: absent, or the set of model
\* ids it answers true for.
NoPredicate == [given |-> FALSE, healthy |-> {}]
Predicate(ids) == [given |-> TRUE, healthy |-> ids]

\* Variant: the tools capability is not required.
Candidates_NoTools(models, tier, requireTools, pred) ==
  SelectSeq(models, LAMBDA m :
    /\ ~(m.tier # tier \/ m.active = "false")
    /\ ~(pred.given /\ m.id \notin pred.healthy))

\* Variant: the health predicate is consulted only when tools are required.
Candidates_HealthWhenTools(models, tier, requireTools, pred) ==
  SelectSeq(models, LAMBDA m :
    /\ ~(m.tier # tier \/ m.active = "false")
    /\ ~(requireTools /\ ~m.tools)
    /\ ~(requireTools /\ pred.given /\ m.id \notin pred.healthy))

\* Variant: the health predicate is not consulted.
Candidates_NoHealth(models, tier, requireTools, pred) ==
  SelectSeq(models, LAMBDA m :
    /\ ~(m.tier # tier \/ m.active = "false")
    /\ ~(requireTools /\ ~m.tools))

\* doc.models.filter(...) of getModelByTierWithEscalation
Candidates(models, tier, requireTools, pred) ==
  SelectSeq(models, LAMBDA m :
    /\ ~(m.tier # tier \/ m.active = "false")
    /\ ~(requireTools /\ ~m.tools)
    /\ ~(pred.given /\ m.id \notin pred.healthy))

NoModel == [found |-> FALSE]

RECURSIVE EscalateAlong(_, _, _, _)
EscalateAlong(chain, models, requireTools, pred) ==
  IF Len(chain) = 0 THEN NoModel
  ELSE LET candidates == Candidates(models, Head(chain), requireTools, pred)
       IN IF Len(candidates) > 0
          THEN [found |-> TRUE, model |-> candidates[1], tier |-> Head(chain)]
          ELSE EscalateAlong(Tail(chain), models, requireTools, pred)

GetModelByTierWithEscalation(doc, startTier, requireTools, pred) ==
  EscalateAlong(TierChain(startTier), doc.models, requireTools, pred)

\* ------------------------------------------------------------------------
\* resolveRoutingOverride
\* ------------------------------------------------------------------------
\* Array.prototype.sort((a, b) => b.priority - a.priority): stable, by
\* descending priority (insertion of each rule after the rules that do not
\* rank below it).
\* Variant: a rule is placed before the rules it ties with.
RECURSIVE InsertByPriority_Unstable(_, _)
InsertByPriority_Unstable(sorted, r) ==
  IF Len(sorted) = 0 THEN <<r>>
  ELSE IF Head(sorted).priority > r.priority
       THEN <<Head(sorted)>> \o InsertByPriority_Unstable(Tail(sorted), r)
       ELSE <<r>> \o sorted

RECURSIVE InsertByPriority(_, _)
InsertByPriority(sorted, r) ==
  IF Len(sorted) = 0 THEN <<r>>
  ELSE IF Head(sorted).priority >= r.priority
       THEN <<Head(sorted)>> \o InsertByPriority(Tail(sorted), r)
       ELSE <<r>> \o sorted

RECURSIVE SortByPriorityDesc(_)
SortByPriorityDesc(rules) ==
  IF Len(rules) = 0 THEN <<>>
  ELSE InsertByPriority(SortByPriorityDesc(SubSeq(rules, 1, Len(rules) - 1)),
                        rules[Len(rules)])

MatchingRules(rules, category, toolsInContext) ==
  SortByPriorityDesc(
    SelectSeq(rules, LAMBDA r :
      r.if = category /\ r.tools_in_context = toolsInContext))

\* Reason strings are kept as the sequence of the pieces the template
\* literals concatenate.
Override(escalated, reason, c) ==
  [override |-> TRUE,
   provider |-> ProviderOf(escalated.model.id),
   model |-> ModelNameOf(escalated.model.id),
   reason |-> reason,
   category |-> c.category,
   complexity |-> c.complexity,
   tier |-> escalated.tier]

NoOverride(reason, c) ==
  [override |-> FALSE, reason |-> reason,
   category |-> c.category, complexity |-> c.complexity]

\* `${toolsInContext}`
BoolText(b) == IF b THEN "true" ELSE "false"

\* matchedIndicators.join(",")
RECURSIVE JoinComma(_)
JoinComma(items) ==
  IF Len(items) = 0 THEN <<>>
  ELSE IF Len(items) = 1 THEN items[1]
  ELSE items[1] \o <<",">> \o JoinComma(Tail(items))

NoRuleMatchReason(c, toolsInContext) ==
  <<"no_rule_match category=", c.category, " tools=", BoolText(toolsInContext),
    " indicators=[">> \o JoinComma(c.matchedIndicators) \o <<"]">>

\* Variant: the default tier is used whatever ambiguous_action says.
ResolveNoRule_AlwaysDefault(doc, toolsInContext, pred, c) ==
  LET tier == doc.routing.default_tier
      escalated == GetModelByTierWithEscalation(doc, tier, toolsInContext, pred)
  IN IF escalated.found
     THEN Override(escalated,
                   <<"no_rule_match, using default_tier=", tier>>
                     \o (IF escalated.tier # tier
                         THEN <<" (escalated", "→", escalated.tier, ")">>
                         ELSE <<>>),
                   c)
     ELSE NoOverride(NoRuleMatchReason(c, toolsInContext), c)

ResolveNoRule(doc, toolsInContext, pred, c) ==
  LET tier == doc.routing.default_tier
      escalated == GetModelByTierWithEscalation(doc, tier, toolsInContext, pred)
  IN IF doc.routing.ambiguous_action = "use_default" /\ escalated.found
     THEN Override(escalated,
                   <<"no_rule_match, using default_tier=", tier>>
                     \o (IF escalated.tier # tier
                         THEN <<" (escalated", "→", escalated.tier, ")">>
                         ELSE <<>>),
                   c)
     ELSE NoOverride(NoRuleMatchReason(c, toolsInContext), c)

ResolveWithRule(doc, matchedRule, toolsInContext, pred, c) ==
  LET tier == matchedRule.then
      escalated == GetModelByTierWithEscalation(doc, tier, toolsInContext, pred)
  IN IF ~escalated.found
     THEN NoOverride(<<"all_tiers_exhausted starting_tier=", tier,
                       " tools=", BoolText(toolsInContext)>>, c)
     ELSE Override(escalated,
                   IF matchedRule.reason # <<>>
                   THEN matchedRule.reason
                          \o (IF escalated.tier # tier
                              THEN <<" (escalated ", tier, "→", escalated.tier, ")">>
                              ELSE <<>>)
                   ELSE <<"rule: ", c.category, "+tools=", BoolText(toolsInContext),
                          "→", escalated.tier>>,
                   c)

ResolveRoutingOverride(prompt, doc, toolsInContext, pred) ==
  LET c == ClassifyPrompt(prompt, doc.classification)
      matchingRules == MatchingRules(doc.routing.rules, c.category, toolsInContext)
  IN IF Len(matchingRules) = 0
     THEN ResolveNoRule(doc, toolsInContext, pred, c)
     ELSE ResolveWithRule(doc, matchingRules[1], toolsInContext, pred, c)

\* Variant: the stored rules array itself is sorted.
RoutingDocAfter_SortInPlace(prompt, doc, toolsInContext) ==
  [doc EXCEPT !.routing.rules = SortByPriorityDesc(doc.routing.rules)]

\* The document object after resolveRoutingOverride returned. filter
\* allocates the array that sort then orders in place; the array held by
\* routingDoc.routing.rules, doc.models and the classification are only read.
RoutingDocAfter(prompt, doc, toolsInContext) ==
  LET c == ClassifyPrompt(prompt, doc.classification)
      arrays == [rules |-> doc.routing.rules,
                 matchingRules |->
                   SelectSeq(doc.routing.rules, LAMBDA r :
                     r.if = c.category /\ r.tools_in_context = toolsInContext)]
      sorted == [arrays EXCEPT !.matchingRules = SortByPriorityDesc(@)]
  IN [doc EXCEPT !.routing.rules = sorted.rules]

\* ------------------------------------------------------------------------
\* Routing context documents and prompts of the hook model
\* ------------------------------------------------------------------------
AgentId == "default"

\* getRoutingContext returns null for an agent without a document
NullDoc == [null |-> TRUE]
IsNull(d) == "null" \in DOMAIN d

HookClassification ==
  [categories |-> ("CHAT" :> <<1, 3>>) @@ ("CODE" :> <<6, 9>>),
   indicators |-> <<[category |-> "CODE", indicators |-> << <<"f", "i", "x">> >>],
                    [category |-> "CHAT", indicators |-> << <<"c", "i">> >>]>>,
   path_patterns |-> << <<"/", "s">> >>,
   code_block_regex |-> [kind |-> "fenced", fence |-> <<"#", "#">>]]

HookRouting ==
  [default_tier |-> "heavy",
   ambiguous_action |-> "no_override",
   rules |-> <<[if |-> "CHAT", tools_in_context |-> FALSE, then |-> "fast",
                priority |-> 1, reason |-> <<>>],
               [if |-> "CHAT", tools_in_context |-> TRUE, then |-> "fast",
                priority |-> 1, reason |-> <<>>],
               [if |-> "CODE", tools_in_context |-> FALSE, then |-> "mid",
                priority |-> 4, reason |-> <<>>],
               [if |-> "CODE", tools_in_context |-> TRUE, then |-> "mid",
                priority |-> 4, reason |-> <<>>]>>]

\* A fast model without tools and a mid model with tools.
DocTwoTiers ==
  [agent_id |-> AgentId,
   models |-> <<[id |-> IdA, tier |-> "fast", tools |-> FALSE, active |-> "unset"],
                [id |-> IdB, tier |-> "mid", tools |-> TRUE, active |-> "unset"]>>,
   classification |-> HookClassification,
   routing |-> HookRouting]

DocNoModels == [DocTwoTiers EXCEPT !.models = <<>>]

PromptChat == <<"C", "i", "a", "o">>
PromptCode == <<"f", "i", "x", "!">>
PromptShort == <<"c", "i">>
Prompts == {PromptChat, PromptCode, PromptShort}

\* col.findOne({ agent_id }): the agent's document, or null
GetRoutingContext(st, agentId) ==
  IF agentId \in DOMAIN st THEN st[agentId] ELSE NullDoc

\* RoutingCache.get: cached && Date.now() - cached.loadedAt < this.ttlMs
CacheFresh(c, t, ttl, agentId) ==
  agentId \in DOMAIN c /\ t - c[agentId].loadedAt < ttl

\* Variant: an entry that is in the map is kept; the first read to complete
\* decides what is cached.
CacheAfterRead_KeepsEntry(c, t, agentId, doc) ==
  IF IsNull(doc) \/ agentId \in DOMAIN c THEN c
  ELSE MapSet(c, agentId, [doc |-> doc, loadedAt |-> t])

\* Variant: whatever the read returned is cached.
CacheAfterRead_CachesNull(c, t, agentId, doc) ==
  MapSet(c, agentId, [doc |-> doc, loadedAt |-> t])

\* RoutingCache.get: if (doc) this.cache.set(agentId, { doc, loadedAt: Date.now() })
CacheAfterRead(c, t, agentId, doc) ==
  IF IsNull(doc) THEN c
  ELSE MapSet(c, agentId, [doc |-> doc, loadedAt |-> t])

NoRequest == [none |-> TRUE]
NoCall == [none |-> TRUE]
NoResult == [override |-> FALSE]

\* No hook invocation in flight, nothing cached.
HooksIdle ==
  /\ cache = EmptyMap
  /\ pc = [k \in SessionKeys |-> "idle"]
  /\ req = [k \in SessionKeys |-> NoRequest]
  /\ got = [k \in SessionKeys |-> NullDoc]
  /\ result = [k \in SessionKeys |-> NoResult]
  /\ skippedOpen = {}
  /\ call = NoCall
  /\ ret = NoCall
  /\ cacheLog = <<>>

\* ------------------------------------------------------------------------
\* History bookkeeping for an outcome consumed on model m at time t
\* ------------------------------------------------------------------------
RowFailsAfter(rf, m, success) ==
  [rf EXCEPT ![m] = IF success THEN 0 ELSE Min(rf[m] + 1, MaxThreshold + 1)]

\* The failures consumed for m since the latest of: its last success, its
\* last failure that came more than windowMs after the failure before it
\* (that failure included).
StreakAfter(st, pf, c, t, m, success) ==
  [st EXCEPT ![m] =
     IF success THEN 0
     ELSE IF pf[m] > 0 /\ t - pf[m] > c.windowMs THEN 1
     ELSE st[m] + 1]

RowOkAfter(ro, rf, pf, c, t, m, success) ==
  [ro EXCEPT ![m] =
     IF success \/ rf[m] = 0 THEN TRUE
     ELSE ro[m] /\ t - pf[m] <= c.windowMs]

\* ------------------------------------------------------------------------
\* Actions of the tracker
\* ------------------------------------------------------------------------
TrackerInit ==
  /\ cfg \in CircuitBreakerConfigs
  /\ now = 1
  /\ health = EmptyMap
  /\ decisions = EmptyMap
  /\ last = [op |-> "init"]
  /\ lastOutcome = [m \in ModelIds |-> "none"]
  /\ prevFailAt = [m \in ModelIds |-> 0]
  /\ rowFails = [m \in ModelIds |-> 0]
  /\ rowOk = [m \in ModelIds |-> TRUE]
  /\ streak = [m \in ModelIds |-> 0]
  /\ spent = [k \in SessionKeys |-> FALSE]
  /\ cleared = {}

Tick ==
  /\ now < MaxNow
  /\ now' = now + 1
  /\ last' = [op |-> "tick"]
  /\ UNCHANGED <<cfg, roster, health, decisions,
                 lastOutcome, prevFailAt, rowFails, rowOk, streak, spent, cleared>>
  /\ UNCHANGED <<hookVars, auxVars>>

RecordDecision(sessionKey, modelId) ==
  /\ decisions' = DecisionsAfterRecordDecision(decisions, now, sessionKey, modelId)
  /\ last' = [op |-> "recordDecision", key |-> sessionKey, model |-> modelId,
              replaced |-> IF sessionKey \in DOMAIN decisions
                           THEN <<decisions[sessionKey].modelId>> ELSE <<>>]
  /\ spent' = [spent EXCEPT ![sessionKey] = FALSE]
  /\ cleared' = cleared \ {sessionKey}
  /\ UNCHANGED <<cfg, now, roster, health,
                 lastOutcome, prevFailAt, rowFails, rowOk, streak>>
  /\ UNCHANGED <<hookVars, auxVars>>

RecordOutcomeHistory(sessionKey, success) ==
  IF sessionKey \notin DOMAIN decisions
  THEN /\ last' = [op |-> "recordOutcome", key |-> sessionKey,
                   success |-> success, consumed |-> FALSE]
       /\ UNCHANGED <<lastOutcome, prevFailAt, rowFails, rowOk, streak, spent>>
  ELSE LET m == decisions[sessionKey].modelId
       IN /\ last' = [op |-> "recordOutcome", key |-> sessionKey,
                      success |-> success, consumed |-> TRUE, model |-> m,
                      before |-> GetState(health, cfg, now, m),
                      timestamp |-> decisions[sessionKey].timestamp]
          /\ lastOutcome' =
               [lastOutcome EXCEPT ![m] = IF success THEN "success" ELSE "failure"]
          /\ prevFailAt' = IF success THEN prevFailAt
                           ELSE [prevFailAt EXCEPT ![m] = now]
          /\ rowFails' = RowFailsAfter(rowFails, m, success)
          /\ rowOk' = RowOkAfter(rowOk, rowFails, prevFailAt, cfg, now, m, success)
          /\ streak' = StreakAfter(streak, prevFailAt, cfg, now, m, success)
          /\ spent' = [spent EXCEPT ![sessionKey] = TRUE]

\* consecutiveFailures is unbounded in the code; the model stops counting
\* failures of a model at MaxFailures.
FailureCountBelowCap(sessionKey, success) ==
  IF success \/ sessionKey \notin DOMAIN decisions THEN TRUE
  ELSE IF decisions[sessionKey].modelId \notin DOMAIN health THEN TRUE
  ELSE health[decisions[sessionKey].modelId].consecutiveFailures < MaxFailures

RecordOutcome(sessionKey, success) ==
  /\ FailureCountBelowCap(sessionKey, success)
  /\ health' = HealthAfterRecordOutcome(health, decisions, cfg, now, sessionKey, success)
  /\ decisions' = DecisionsAfterRecordOutcome(decisions, sessionKey)
  /\ RecordOutcomeHistory(sessionKey, success)
  /\ UNCHANGED <<cfg, now, roster, cleared>>
  /\ UNCHANGED <<hookVars, auxVars>>

ResetModel(modelId) ==
  /\ health' = MapDelete(health, modelId)
  /\ last' = [op |-> "resetModel", model |-> modelId]
  /\ rowFails' = [rowFails EXCEPT ![modelId] = 0]
  /\ streak' = [streak EXCEPT ![modelId] = 0]
  /\ UNCHANGED <<cfg, now, roster, decisions, lastOutcome, prevFailAt, rowOk, spent,
                 cleared>>
  /\ UNCHANGED <<hookVars, auxVars>>

ResetAll ==
  /\ health' = EmptyMap
  /\ decisions' = EmptyMap
  /\ last' = [op |-> "resetAll"]
  /\ rowFails' = [m \in ModelIds |-> 0]
  /\ streak' = [m \in ModelIds |-> 0]
  /\ cleared' = cleared \cup DOMAIN decisions
  /\ UNCHANGED <<cfg, now, roster, lastOutcome, prevFailAt, rowOk, spent>>
  /\ UNCHANGED <<hookVars, auxVars>>

TrackerNext ==
  \/ Tick
  \/ \E s \in SessionKeys, m \in roster : RecordDecision(s, m)
  \/ \E s \in SessionKeys, ok \in BOOLEAN : RecordOutcome(s, ok)
  \/ \E m \in ModelIds : ResetModel(m)
  \/ ResetAll

\* One model on the roster: the circuit breaker of a single model, under
\* every configuration.
\* The hooks are at rest and the routing collection holds no document.
HooksUnused == HooksIdle /\ ttlMs = 1 /\ store = EmptyMap

Init == TrackerInit /\ roster = {IdA} /\ HooksUnused

Next == TrackerNext

Spec == Init /\ [][Next]_vars

\* Two models on the roster.
ScaledDefaultConfig ==
  [failureThreshold |-> MaxThreshold, cooldownMs |-> MaxCooldown,
   windowMs |-> MaxWindow]

InitTwoModels ==
  TrackerInit /\ roster = ModelIds /\ cfg = ScaledDefaultConfig /\ HooksUnused

NextTwoModels == TrackerNext

SpecTwoModels == InitTwoModels /\ [][NextTwoModels]_vars

\* ------------------------------------------------------------------------
\* before_agent_start / agent_end
\* ------------------------------------------------------------------------
\* The hook returns r for session s; the agent run starts.
HookReturns(s, r) ==
  /\ result' = [result EXCEPT ![s] = r]
  /\ pc' = [pc EXCEPT ![s] = "running"]
  /\ req' = [req EXCEPT ![s] = NoRequest]
  /\ got' = [got EXCEPT ![s] = NullDoc]

\* before_agent_start from the prompt test to the await inside
\* RoutingCache.get. The handler reads no shared state before
\* db.getCollection resolves, so the step is taken when it resolves: a fresh
\* cache entry is returned, otherwise the store read is issued.
BeforeAgentStart(s, prompt, toolsInContext) ==
  /\ pc[s] = "idle"
  /\ IF Len(prompt) < 3
     THEN /\ HookReturns(s, NoResult)
          /\ last' = [op |-> "before_agent_start", key |-> s, override |-> FALSE]
     ELSE /\ req' = [req EXCEPT ![s] =
                       [prompt |-> prompt, toolsInContext |-> toolsInContext]]
          /\ last' = [op |-> "hook", key |-> s]
          /\ IF CacheFresh(cache, now, ttlMs, AgentId)
             THEN /\ got' = [got EXCEPT ![s] = cache[AgentId].doc]
                  /\ pc' = [pc EXCEPT ![s] = "resolving"]
             ELSE /\ pc' = [pc EXCEPT ![s] = "reading"]
                  /\ UNCHANGED got
          /\ UNCHANGED result
  /\ UNCHANGED auxVars
  /\ UNCHANGED <<cleared, cfg, now, roster, health, decisions,
                 lastOutcome, prevFailAt, rowFails, rowOk, streak, spent,
                 ttlMs, store, cache, skippedOpen>>

\* Variant: the rejected read leaves a null entry for the agent.
HookFails_CachesNull(s) ==
  /\ pc[s] \in {"idle", "reading"}
  /\ HookReturns(s, NoResult)
  /\ cache' = MapSet(cache, AgentId, [doc |-> NullDoc, loadedAt |-> now])
  /\ last' = [op |-> "before_agent_start", key |-> s, override |-> FALSE,
              error |-> TRUE]
  /\ UNCHANGED auxVars
  /\ UNCHANGED <<cleared, cfg, now, roster, health, decisions,
                 lastOutcome, prevFailAt, rowFails, rowOk, streak, spent,
                 ttlMs, store, skippedOpen>>

\* db.getCollection or the store read rejected: the catch block logs a
\* warning and the hook returns nothing.
HookFails(s) ==
  /\ pc[s] \in {"idle", "reading"}
  /\ HookReturns(s, NoResult)
  /\ last' = [op |-> "before_agent_start", key |-> s, override |-> FALSE,
              error |-> TRUE]
  /\ UNCHANGED auxVars
  /\ UNCHANGED <<cleared, cfg, now, roster, health, decisions,
                 lastOutcome, prevFailAt, rowFails, rowOk, streak, spent,
                 ttlMs, store, cache, skippedOpen>>

\* getRoutingContext resolved: a document is cached with the current time,
\* null is not cached.
StoreReadDone(s) ==
  /\ pc[s] = "reading"
  /\ cache' = CacheAfterRead(cache, now, AgentId, GetRoutingContext(store, AgentId))
  /\ got' = [got EXCEPT ![s] = GetRoutingContext(store, AgentId)]
  /\ pc' = [pc EXCEPT ![s] = "resolving"]
  /\ last' = [op |-> "hook", key |-> s]
  /\ UNCHANGED auxVars
  /\ UNCHANGED <<cleared, cfg, now, roster, health, decisions,
                 lastOutcome, prevFailAt, rowFails, rowOk, streak, spent,
                 ttlMs, store, req, result, skippedOpen>>

\* Variant: a half-open model is reported as unhealthy.
HealthPredicate_ClosedOnly(doc) ==
  Predicate({doc.models[i].id : i \in
               {j \in 1..Len(doc.models) :
                  GetState(health, cfg, now, doc.models[j].id) = "closed"}})

\* healthTracker.isHealthy.bind(healthTracker), asked about the document's
\* models
HealthPredicate(doc) ==
  Predicate({doc.models[i].id : i \in
               {j \in 1..Len(doc.models) :
                  IsHealthy(health, cfg, now, doc.models[j].id)}})

OpenModels == {m \in ModelIds : GetState(health, cfg, now, m) = "open"}

\* The rest of before_agent_start, after routingCache.get resolved: resolve,
\* record the decision, return the override.
ResolveAndRecord(s) ==
  /\ pc[s] = "resolving"
  /\ IF IsNull(got[s]) \/ Len(got[s].models) = 0
     THEN /\ HookReturns(s, NoResult)
          /\ last' = [op |-> "before_agent_start", key |-> s, override |-> FALSE]
          /\ UNCHANGED <<decisions, spent, skippedOpen>>
     ELSE LET decision ==
                ResolveRoutingOverride(req[s].prompt, got[s],
                                       req[s].toolsInContext,
                                       HealthPredicate(got[s]))
          IN IF decision.override
             THEN LET id == RecordedId(decision.provider, decision.model)
                  IN /\ decisions' =
                          DecisionsAfterRecordDecision(decisions, now, s, id)
                     /\ spent' = [spent EXCEPT ![s] = FALSE]
                     /\ HookReturns(s, [override |-> TRUE,
                                        provider |-> decision.provider,
                                        model |-> decision.model,
                                        reason |-> decision.reason])
                     /\ last' = [op |-> "before_agent_start", key |-> s,
                                 override |-> TRUE, id |-> id,
                                 tier |-> decision.tier]
                     /\ skippedOpen' = skippedOpen \cup OpenModels
             ELSE /\ HookReturns(s, NoResult)
                  /\ last' = [op |-> "before_agent_start", key |-> s,
                              override |-> FALSE]
                  /\ skippedOpen' = skippedOpen \cup OpenModels
                  /\ UNCHANGED <<decisions, spent>>
  /\ UNCHANGED auxVars
  /\ UNCHANGED <<cleared, cfg, now, roster, health,
                 lastOutcome, prevFailAt, rowFails, rowOk, streak,
                 ttlMs, store, cache>>

\* agent_end: the outcome of the run is recorded for the session; the
\* override the hook returned has served its run.
AgentEnd(s, success) ==
  /\ pc[s] = "running"
  /\ FailureCountBelowCap(s, success)
  /\ health' = HealthAfterRecordOutcome(health, decisions, cfg, now, s, success)
  /\ decisions' = DecisionsAfterRecordOutcome(decisions, s)
  /\ RecordOutcomeHistory(s, success)
  /\ pc' = [pc EXCEPT ![s] = "idle"]
  /\ result' = [result EXCEPT ![s] = NoResult]
  /\ UNCHANGED auxVars
  /\ UNCHANGED <<cleared, cfg, now, roster, ttlMs, store, cache, req, got, skippedOpen>>

RoutingDocs == {DocTwoTiers, DocNoModels}

\* What the hooks are driven with: a prompt below the length test, a prompt
\* the CHAT rule sends to the fast tier, no message provider in the context.
HookPrompts == {PromptChat, PromptShort}
HookToolsInContext == {FALSE}

InitHooks ==
  /\ TrackerInit
  /\ cfg = ScaledDefaultConfig
  /\ roster = ModelIds
  /\ HooksIdle
  /\ ttlMs \in 1..MaxTtl
  /\ store \in {EmptyMap} \cup {(AgentId :> d) : d \in RoutingDocs}

NextHooks ==
  \/ Tick
  \/ \E s \in SessionKeys, p \in HookPrompts, t \in HookToolsInContext :
        BeforeAgentStart(s, p, t)
  \/ \E s \in SessionKeys : HookFails(s)
  \/ \E s \in SessionKeys : StoreReadDone(s)
  \/ \E s \in SessionKeys : ResolveAndRecord(s)
  \/ \E s \in SessionKeys, ok \in BOOLEAN : AgentEnd(s, ok)

\* The system driven only through the two hooks, sessions interleaved.
SpecHooks == InitHooks /\ [][NextHooks]_vars

\* The same with the handler's own steps scheduled: once routingCache.get
\* has resolved the event loop runs the rest of the handler. Nothing obliges
\* the document store to answer (StoreReadDone) or to fail (HookFails).
SpecHooksFair ==
  SpecHooks /\ \A s \in SessionKeys : WF_vars(ResolveAndRecord(s))

\* ------------------------------------------------------------------------
\* The resolver called on its own
\* ------------------------------------------------------------------------
\* Rosters of at most MaxModels models; the first is IdA, the second IdB.
MaxModels == 2
IdC == <<"c", "/", "z">>
RosterIds == <<IdA, IdB, IdC>>

ModelShapes ==
  [tier : {"fast", "mid", "heavy"}, tools : BOOLEAN, active : {"unset", "false"}]
    \cup {[tier |-> "ultra", tools |-> TRUE, active |-> "unset"]}

ModelOf(id, shape) ==
  [id |-> id, tier |-> shape.tier, tools |-> shape.tools, active |-> shape.active]

Rosters ==
  UNION {{[i \in 1..n |-> ModelOf(RosterIds[i], shapes[i])] :
            shapes \in [1..n -> ModelShapes]} : n \in 0..MaxModels}

\* Rules for CHAT prompts: two of them tied at priority 2, two without a
\* reason of their own, one sending to a tier outside the escalation table.
RulePool ==
  {[if |-> "CHAT", tools_in_context |-> FALSE, then |-> "fast",
    priority |-> 1, reason |-> <<>>],
   [if |-> "CHAT", tools_in_context |-> FALSE, then |-> "mid",
    priority |-> 2, reason |-> <<"small talk">>],
   [if |-> "CHAT", tools_in_context |-> FALSE, then |-> "heavy",
    priority |-> 2, reason |-> <<"long talk">>],
   [if |-> "CHAT", tools_in_context |-> TRUE, then |-> "fast",
    priority |-> 1, reason |-> <<>>],
   [if |-> "CHAT", tools_in_context |-> TRUE, then |-> "ultra",
    priority |-> 3, reason |-> <<"tool talk">>]}

\* Stored rule lists: up to MaxRules rules of the pool, in any order.
MaxRules == 2

RuleLists ==
  UNION {{rs \in [1..n -> RulePool] :
            \A i \in 1..n, j \in 1..n : i # j => rs[i] # rs[j]} : n \in 0..MaxRules}

Routings ==
  [default_tier : {"mid"},
   ambiguous_action : {"use_default", "no_override"},
   rules : RuleLists]

ResolverDocs ==
  {[agent_id |-> AgentId, models |-> ms,
    classification |-> HookClassification, routing |-> r] :
      ms \in Rosters, r \in Routings}

HealthPredicates == {NoPredicate} \cup {Predicate(ids) : ids \in SUBSET ModelIds}

ResolverCalls ==
  [prompt : {PromptChat, PromptCode},
   doc : ResolverDocs,
   toolsInContext : BOOLEAN,
   pred : HealthPredicates]

InitResolver ==
  /\ TrackerInit
  /\ cfg = ScaledDefaultConfig
  /\ roster = ModelIds
  /\ cache = EmptyMap
  /\ pc = [k \in SessionKeys |-> "idle"]
  /\ req = [k \in SessionKeys |-> NoRequest]
  /\ got = [k \in SessionKeys |-> NullDoc]
  /\ result = [k \in SessionKeys |-> NoResult]
  /\ skippedOpen = {}
  /\ ttlMs = 1
  /\ store = EmptyMap
  /\ cacheLog = <<>>
  /\ call \in ResolverCalls
  /\ ret = NoCall

\* resolveRoutingOverride(prompt, routingDoc, toolsInContext, _, _, isModelHealthy)
Resolve ==
  /\ ret = NoCall
  /\ ret' = ResolveRoutingOverride(call.prompt, call.doc, call.toolsInContext,
                                   call.pred)
  /\ call' = [call EXCEPT !.doc = RoutingDocAfter(call.prompt, call.doc,
                                                  call.toolsInContext)]
  /\ last' = [op |-> "resolveRoutingOverride"]
  /\ UNCHANGED <<cfg, now, roster, health, decisions,
                 lastOutcome, prevFailAt, rowFails, rowOk, streak, spent, cleared,
                 hookVars, cacheLog>>

NextResolver == Resolve

SpecResolver == InitResolver /\ [][NextResolver]_vars

\* ------------------------------------------------------------------------
\* The resolver called again and again while the circuit breaker changes
\* ------------------------------------------------------------------------
\* The arguments stay the same from call to call; the health predicate is the
\* tracker's isHealthy. ret keeps, of the latest call, the decision, the
\* answers isHealthy gave for the models of the document and the state the
\* first model was in.
RepeatedCalls ==
  [prompt : {PromptChat, PromptCode},
   doc : {DocTwoTiers},
   toolsInContext : BOOLEAN]

\* isHealthy(m.id) for the models of the document
Answers(doc) ==
  {doc.models[i].id : i \in
     {j \in 1..Len(doc.models) : IsHealthy(health, cfg, now, doc.models[j].id)}}

InitRepeated ==
  /\ TrackerInit
  /\ cfg = ScaledDefaultConfig
  /\ roster = {IdA}
  /\ cache = EmptyMap
  /\ pc = [k \in SessionKeys |-> "idle"]
  /\ req = [k \in SessionKeys |-> NoRequest]
  /\ got = [k \in SessionKeys |-> NullDoc]
  /\ result = [k \in SessionKeys |-> NoResult]
  /\ skippedOpen = {}
  /\ ttlMs = 1
  /\ store = EmptyMap
  /\ cacheLog = <<>>
  /\ call \in RepeatedCalls
  /\ ret = NoCall

\* resolveRoutingOverride(prompt, routingDoc, toolsInContext, logger, agentId,
\* healthTracker.isHealthy.bind(healthTracker))
ResolveBound ==
  /\ ret' = [decision |-> ResolveRoutingOverride(call.prompt, call.doc,
                                                 call.toolsInContext,
                                                 HealthPredicate(call.doc)),
             answers |-> Answers(call.doc),
             state |-> GetState(health, cfg, now, IdA)]
  /\ last' = [op |-> "resolveRoutingOverride",
              same |-> ret # NoCall /\ ret.answers = Answers(call.doc),
              before |-> ret]
  /\ UNCHANGED <<cfg, now, roster, health, decisions,
                 lastOutcome, prevFailAt, rowFails, rowOk, streak, spent, cleared,
                 hookVars, call, cacheLog>>

NextRepeated == TrackerNext \/ ResolveBound

SpecRepeated == InitRepeated /\ [][NextRepeated]_vars

\* ------------------------------------------------------------------------
\* The id recorded for the selected model
\* ------------------------------------------------------------------------
\* Model ids of up to MaxIdLen characters, with and without "/".
IdStrings == UNION {[1..n -> {"a", "b", "/"}] : n \in 0..MaxIdLen}

InitIds ==
  /\ TrackerInit
  /\ cfg = ScaledDefaultConfig
  /\ roster = ModelIds
  /\ cache = EmptyMap
  /\ pc = [k \in SessionKeys |-> "idle"]
  /\ req = [k \in SessionKeys |-> NoRequest]
  /\ got = [k \in SessionKeys |-> NullDoc]
  /\ result = [k \in SessionKeys |-> NoResult]
  /\ skippedOpen = {}
  /\ ttlMs = 1
  /\ store = EmptyMap
  /\ cacheLog = <<>>
  /\ call \in [id : IdStrings, toolsInContext : BOOLEAN]
  /\ ret = NoCall

\* before_agent_start with a context whose only model has the id: the
\* resolver selects it and the hook builds the id it hands to recordDecision,
\* `${decision.provider}/${decision.model}`
RecordSelected ==
  /\ ret = NoCall
  /\ LET doc == [DocTwoTiers EXCEPT
                   !.models = <<[id |-> call.id, tier |-> "fast",
                                 tools |-> TRUE, active |-> "unset"]>>]
         decision == ResolveRoutingOverride(PromptChat, doc,
                                            call.toolsInContext, NoPredicate)
     IN ret' = [decision |-> decision,
                recorded |-> IF decision.override
                             THEN <<RecordedId(decision.provider, decision.model)>>
                             ELSE <<>>]
  /\ last' = [op |-> "before_agent_start"]
  /\ UNCHANGED <<cfg, now, roster, health, decisions,
                 lastOutcome, prevFailAt, rowFails, rowOk, streak, spent, cleared,
                 hookVars, call, cacheLog>>

NextIds == RecordSelected

SpecIds == InitIds /\ [][NextIds]_vars

\* ------------------------------------------------------------------------
\* The classifier called on its own
\* ------------------------------------------------------------------------
\* complexity_range: [number, number], low <= high as in every range of the
\* repository
ComplexityRanges ==
  {<<lo, hi>> : lo \in 1..MaxComplexity, hi \in 1..MaxComplexity} \cap
  {r \in Seq(1..MaxComplexity) : Len(r) = 2 /\ r[1] <= r[2]}

\* classification.categories: every declared subset of CHAT and CODE
CategoryTables ==
  UNION {[names -> ComplexityRanges] : names \in SUBSET {"CHAT", "CODE"}}

IndicatorTables ==
  {<<>>,
   HookClassification.indicators,
   <<[category |-> "CODE",
      indicators |-> << <<"f", "i", "x">>, <<"!">>, <<"F", "I">> >>],
     [category |-> "CHAT", indicators |-> << <<"c", "i">> >>]>>}

PromptPath == <<"f", "i", "x", "/", "s", "#", "#", "#", "#">>
PromptNone == <<"?">>

Classifications ==
  [categories : CategoryTables,
   indicators : IndicatorTables,
   path_patterns : {<<>>, HookClassification.path_patterns},
   code_block_regex : {[kind |-> "empty"], HookClassification.code_block_regex}]

ClassifierCalls ==
  [prompt : {PromptChat, PromptCode, PromptPath, PromptNone},
   classification : Classifications]

InitClassifier ==
  /\ TrackerInit
  /\ cfg = ScaledDefaultConfig
  /\ roster = ModelIds
  /\ cache = EmptyMap
  /\ pc = [k \in SessionKeys |-> "idle"]
  /\ req = [k \in SessionKeys |-> NoRequest]
  /\ got = [k \in SessionKeys |-> NullDoc]
  /\ result = [k \in SessionKeys |-> NoResult]
  /\ skippedOpen = {}
  /\ ttlMs = 1
  /\ store = EmptyMap
  /\ cacheLog = <<>>
  /\ call \in ClassifierCalls
  /\ ret = NoCall

\* classifyPrompt(prompt, classification)
Classify ==
  /\ ret = NoCall
  /\ ret' = ClassifyPrompt(call.prompt, call.classification)
  /\ last' = [op |-> "classifyPrompt"]
  /\ UNCHANGED <<cfg, now, roster, health, decisions,
                 lastOutcome, prevFailAt, rowFails, rowOk, streak, spent, cleared,
                 hookVars, call, cacheLog>>

NextClassifier == Classify

SpecClassifier == InitClassifier /\ [][NextClassifier]_vars

\* ------------------------------------------------------------------------
\* The routing cache called on its own
\* ------------------------------------------------------------------------
AgentIds == {AgentId, "other"}

\* the documents storeRoutingContext writes for an agent
DocFor(agentId, doc) == [doc EXCEPT !.agent_id = agentId]

Provisioned(st, agentId) == agentId \in DOMAIN st

\* What is remembered of the calls about the agent AgentId: its latest get
\* (the time it was made, whether it found no fresh entry, its caller,
\* whether it has returned and what), whether the agent's entry has been
\* invalidated since that get and whether a read has filled it again, the
\* number of writes and deletions of the agent's document (counted up to 2),
\* and whether the entry has been invalidated since the latest of them.
NoGet == [made |-> FALSE]

NoCacheLog ==
  [prev |-> NoGet, inval |-> "no", writes |-> 0, invalidated |-> TRUE]

\* RoutingCache.get up to its await: a fresh entry is returned at once,
\* otherwise the store read is issued.
CacheGet(k, agentId) ==
  /\ pc[k] = "idle"
  /\ LET hit == CacheFresh(cache, now, ttlMs, agentId)
         doc == IF hit THEN cache[agentId].doc ELSE NullDoc
     IN /\ pc' = [pc EXCEPT ![k] = IF hit THEN "idle" ELSE "reading"]
        /\ req' = [req EXCEPT ![k] =
             IF hit THEN NoRequest
             ELSE [agentId |-> agentId, doc |-> NullDoc,
                   prov |-> Provisioned(store, agentId)]]
        /\ cacheLog' = IF agentId # AgentId THEN cacheLog ELSE
             [cacheLog EXCEPT !.prev = [made |-> TRUE, at |-> now,
                                        missed |-> ~hit, caller |-> k,
                                        returned |-> hit, doc |-> doc],
                              !.inval = "no"]
        /\ last' = [op |-> "get", caller |-> k, agentId |-> agentId,
                    hit |-> hit, doc |-> doc,
                    inval |-> IF agentId = AgentId THEN cacheLog.inval
                              ELSE "no",
                    prevNull |-> /\ agentId = AgentId
                                 /\ cacheLog.prev.made
                                 /\ cacheLog.prev.returned
                                 /\ IsNull(cacheLog.prev.doc)]
  /\ UNCHANGED <<cfg, now, roster, health, decisions,
                 lastOutcome, prevFailAt, rowFails, rowOk, streak, spent, cleared,
                 ttlMs, store, cache, got, result, skippedOpen, call, ret>>

\* getRoutingContext: the store answers the findOne of a pending get.
StoreRead(k) ==
  /\ pc[k] = "reading"
  /\ pc' = [pc EXCEPT ![k] = "read"]
  /\ req' = [req EXCEPT ![k].doc = GetRoutingContext(store, req[k].agentId)]
  /\ last' = [op |-> "findOne", caller |-> k, agentId |-> req[k].agentId]
  /\ UNCHANGED <<cfg, now, roster, health, decisions,
                 lastOutcome, prevFailAt, rowFails, rowOk, streak, spent, cleared,
                 ttlMs, store, cache, got, result, skippedOpen, auxVars>>

\* RoutingCache.get after its await: the document is cached unless null, and
\* returned.
CacheGetDone(k) ==
  /\ pc[k] = "read"
  /\ LET agentId == req[k].agentId
         doc == req[k].doc
         mine == /\ cacheLog.prev.made
                 /\ cacheLog.prev.caller = k
                 /\ ~cacheLog.prev.returned
     IN /\ cache' = CacheAfterRead(cache, now, agentId, doc)
        /\ cacheLog' = IF agentId # AgentId THEN cacheLog ELSE
             [cacheLog EXCEPT !.prev = IF mine
                                       THEN [@ EXCEPT !.returned = TRUE,
                                                      !.doc = doc]
                                       ELSE @,
                              !.inval = IF @ = "yes" /\ ~IsNull(doc)
                                        THEN "refilled" ELSE @]
        /\ last' = [op |-> "getDone", caller |-> k, agentId |-> agentId,
                    doc |-> doc, prov |-> req[k].prov]
  /\ pc' = [pc EXCEPT ![k] = "idle"]
  /\ req' = [req EXCEPT ![k] = NoRequest]
  /\ UNCHANGED <<cfg, now, roster, health, decisions,
                 lastOutcome, prevFailAt, rowFails, rowOk, streak, spent, cleared,
                 ttlMs, store, got, result, skippedOpen, call, ret>>

\* RoutingCache.invalidate(agentId?): delete the entry when agentId is truthy,
\* clear the map otherwise ("" stands for a missing or empty argument)
CacheAfterInvalidate(c, agentId) ==
  IF agentId # "" THEN MapDelete(c, agentId) ELSE EmptyMap

Invalidate(agentId) ==
  /\ cache' = CacheAfterInvalidate(cache, agentId)
  /\ cacheLog' = IF agentId # AgentId THEN cacheLog
                  ELSE [cacheLog EXCEPT !.inval = "yes", !.invalidated = TRUE]
  /\ last' = [op |-> "invalidate", agentId |-> agentId]
  /\ UNCHANGED <<cfg, now, roster, health, decisions,
                 lastOutcome, prevFailAt, rowFails, rowOk, streak, spent, cleared,
                 ttlMs, store, pc, req, got, result, skippedOpen, call, ret>>

\* RoutingCache.invalidate(): this.cache.clear()
InvalidateAll ==
  /\ cache' = CacheAfterInvalidate(cache, "")
  /\ cacheLog' = [cacheLog EXCEPT !.inval = "yes", !.invalidated = TRUE]
  /\ last' = [op |-> "invalidateAll"]
  /\ UNCHANGED <<cfg, now, roster, health, decisions,
                 lastOutcome, prevFailAt, rowFails, rowOk, streak, spent, cleared,
                 ttlMs, store, pc, req, got, result, skippedOpen, call, ret>>

\* storeRoutingContext: upsert of the agent's document
StoreRoutingContext(agentId, doc) ==
  /\ GetRoutingContext(store, agentId) # DocFor(agentId, doc)
  /\ store' = MapSet(store, agentId, DocFor(agentId, doc))
  /\ cacheLog' = IF agentId # AgentId THEN cacheLog
                  ELSE [cacheLog EXCEPT !.writes = Min(@ + 1, 2),
                                        !.invalidated = FALSE]
  /\ last' = [op |-> "storeRoutingContext", agentId |-> agentId]
  /\ UNCHANGED <<cfg, now, roster, health, decisions,
                 lastOutcome, prevFailAt, rowFails, rowOk, streak, spent, cleared,
                 ttlMs, cache, pc, req, got, result, skippedOpen, call, ret>>

\* routing reset: col.deleteOne({ agent_id: agentId })
DeleteRoutingContext(agentId) ==
  /\ Provisioned(store, agentId)
  /\ store' = MapDelete(store, agentId)
  /\ cacheLog' = IF agentId # AgentId THEN cacheLog
                  ELSE [cacheLog EXCEPT !.writes = Min(@ + 1, 2),
                                        !.invalidated = FALSE]
  /\ last' = [op |-> "deleteOne", agentId |-> agentId]
  /\ UNCHANGED <<cfg, now, roster, health, decisions,
                 lastOutcome, prevFailAt, rowFails, rowOk, streak, spent, cleared,
                 ttlMs, cache, pc, req, got, result, skippedOpen, call, ret>>

InitCache ==
  /\ TrackerInit
  /\ cfg = ScaledDefaultConfig
  /\ roster = ModelIds
  /\ cache = EmptyMap
  /\ pc = [k \in SessionKeys |-> "idle"]
  /\ req = [k \in SessionKeys |-> NoRequest]
  /\ got = [k \in SessionKeys |-> NullDoc]
  /\ result = [k \in SessionKeys |-> NoResult]
  /\ skippedOpen = {}
  /\ call = NoCall
  /\ ret = NoCall
  /\ ttlMs \in 1..MaxTtl
  /\ store = ("other" :> DocFor("other", DocTwoTiers))
  /\ cacheLog = NoCacheLog

NextCache ==
  \/ Tick
  \/ \E k \in SessionKeys, a \in AgentIds : CacheGet(k, a)
  \/ \E k \in SessionKeys : StoreRead(k)
  \/ \E k \in SessionKeys : CacheGetDone(k)
  \/ \E a \in AgentIds : Invalidate(a)
  \/ InvalidateAll
  \/ \E d \in RoutingDocs : StoreRoutingContext(AgentId, d)
  \/ DeleteRoutingContext(AgentId)

\* The cache used by two callers for two agents: AgentId, not provisioned at
\* first and then written or deleted at any time, and another agent whose
\* document stays as provisioned; the cache is invalidated at any time.
SpecCache == InitCache /\ [][NextCache]_vars

\* ------------------------------------------------------------------------
\* Model lists: computeModelsHash, mergeModelsIncremental
\* ------------------------------------------------------------------------
\* String.prototype.charCodeAt for the characters of the ids in range
CharCode(ch) ==
  CASE ch = "/" -> 47
    [] ch = "A" -> 65
    [] ch = "B" -> 66
    [] ch = "a" -> 97
    [] ch = "b" -> 98
    [] ch = "c" -> 99
    [] ch = "p" -> 112
    [] ch = "x" -> 120
    [] ch = "y" -> 121
    [] ch = "z" -> 122
    [] ch = "|" -> 124

\* s < t in the order of Array.prototype.sort without a comparator: code
\* units compared from the left, a proper prefix first
RECURSIVE StringLess(_, _)
StringLess(s, t) ==
  IF Len(t) = 0 THEN FALSE
  ELSE IF Len(s) = 0 THEN TRUE
  ELSE IF CharCode(Head(s)) # CharCode(Head(t))
       THEN CharCode(Head(s)) < CharCode(Head(t))
       ELSE StringLess(Tail(s), Tail(t))

RECURSIVE InsertSorted(_, _)
InsertSorted(sorted, s) ==
  IF Len(sorted) = 0 THEN <<s>>
  ELSE IF StringLess(s, Head(sorted)) THEN <<s>> \o sorted
  ELSE <<Head(sorted)>> \o InsertSorted(Tail(sorted), s)

\* Variant: the ids are left in the order of the list.
SortStrings_Unsorted(strings) == strings

\* ids.sort()
RECURSIVE SortStrings(_)
SortStrings(strings) ==
  IF Len(strings) = 0 THEN <<>>
  ELSE InsertSorted(SortStrings(Tail(strings)), Head(strings))

\* Array.prototype.join
RECURSIVE Join(_, _)
Join(strings, sep) ==
  IF Len(strings) = 0 THEN <<>>
  ELSE IF Len(strings) = 1 THEN Head(strings)
  ELSE Head(strings) \o sep \o Join(Tail(strings), sep)

\* A 32-bit integer kept as two 16-bit halves.
Half == 65536

\* ((hash << 5) - hash + code) | 0, that is 31 * hash + code modulo 2^32
HashStep(h, code) ==
  LET lo == 31 * h.lo + code
      hi == 31 * h.hi + (lo \div Half)
  IN [hi |-> hi % Half, lo |-> lo % Half]

RECURSIVE HashFrom(_, _)
HashFrom(h, s) ==
  IF Len(s) = 0 THEN h
  ELSE HashFrom(HashStep(h, CharCode(Head(s))), Tail(s))

\* the halves read as a signed 32-bit integer
ToInt32(h) ==
  IF h.hi >= Half \div 2 THEN (h.hi - Half) * Half + h.lo
  ELSE h.hi * Half + h.lo

Digits36 ==
  <<"0", "1", "2", "3", "4", "5", "6", "7", "8", "9", "a", "b", "c", "d",
    "e", "f", "g", "h", "i", "j", "k", "l", "m", "n", "o", "p", "q", "r",
    "s", "t", "u", "v", "w", "x", "y", "z">>

\* the digits of -n in base 36, for n <= 0
RECURSIVE DigitsOfNegated(_)
DigitsOfNegated(n) ==
  LET d == (36 - (n % 36)) % 36
      q == (n + d) \div 36
  IN IF q = 0 THEN <<Digits36[d + 1]>>
     ELSE DigitsOfNegated(q) \o <<Digits36[d + 1]>>

\* Number.prototype.toString(36) of a 32-bit integer
ToString36(n) ==
  IF n < 0 THEN <<"-">> \o DigitsOfNegated(n) ELSE DigitsOfNegated(0 - n)

Ids(models) == [i \in 1..Len(models) |-> models[i].id]

\* computeModelsHash
ComputeModelsHash(models) ==
  LET ids == Join(SortStrings(Ids(models)), <<"|">>)
  IN ToString36(ToInt32(HashFrom([hi |-> 0, lo |-> 0], ids)))

IdSet(models) == {models[i].id : i \in 1..Len(models)}

\* Variant: every discovered model is appended.
MergeModelsIncremental_AppendAll(existing, discovered) ==
  LET discoveredIds == IdSet(discovered)
      kept == [i \in 1..Len(existing) |->
                 IF existing[i].id \in discoveredIds THEN existing[i]
                 ELSE [existing[i] EXCEPT !.active = "false"]]
  IN kept \o discovered

\* Variant: a model still discovered is taken from the discovered list.
MergeModelsIncremental_TakeDiscovered(existing, discovered) ==
  LET existingIds == IdSet(existing)
      discoveredIds == IdSet(discovered)
      kept == [i \in 1..Len(existing) |->
                 IF existing[i].id \in discoveredIds
                 THEN LET j == CHOOSE j \in 1..Len(discovered) :
                                 discovered[j].id = existing[i].id
                      IN discovered[j]
                 ELSE [existing[i] EXCEPT !.active = "false"]]
      added == SelectSeq(discovered, LAMBDA m : m.id \notin existingIds)
  IN kept \o added

\* mergeModelsIncremental
MergeModelsIncremental(existing, discovered) ==
  LET existingIds == IdSet(existing)
      discoveredIds == IdSet(discovered)
      kept == [i \in 1..Len(existing) |->
                 IF existing[i].id \in discoveredIds THEN existing[i]
                 ELSE [existing[i] EXCEPT !.active = "false"]]
      added == SelectSeq(discovered, LAMBDA m : m.id \notin existingIds)
  IN kept \o added

\* Ids hashed: the three ids of the rosters and two ids with the same
\* provider and a different model name.
IdAa == <<"p", "/", "A", "a">>
IdBB == <<"p", "/", "B", "B">>
HashedIds == {IdA, IdB, IdC, IdAa, IdBB}

\* Models as stored (a tier the user may have reassigned, use_when the user
\* may have edited, active unset, true or false) and as discovered (the
\* tier of the heuristics, empty use_when, active unset).
StoredModels ==
  [id : HashedIds, tier : {"fast", "heavy"}, tools : {TRUE},
   use_when : {<<>>, <<"greetings">>}, active : {"unset", "true", "false"}]

DiscoveredModels ==
  [id : HashedIds, tier : {"mid"}, tools : {TRUE},
   use_when : {<<>>}, active : {"unset"}]

ListsOf(S) == UNION {[1..n -> S] : n \in 0..MaxModels}

HashCalls ==
  {[op |-> "computeModelsHash", models |-> l] :
     l \in ListsOf({m \in StoredModels :
                      m.use_when = <<>> /\ m.active = "unset"})}

MergeCalls ==
  {[op |-> "mergeModelsIncremental", existing |-> e, discovered |-> d] :
     e \in ListsOf({m \in StoredModels : m.id \in {IdA, IdB, IdC}}),
     d \in ListsOf({m \in DiscoveredModels : m.id \in {IdA, IdB, IdC}})}

InitModels ==
  /\ TrackerInit
  /\ cfg = ScaledDefaultConfig
  /\ roster = ModelIds
  /\ cache = EmptyMap
  /\ pc = [k \in SessionKeys |-> "idle"]
  /\ req = [k \in SessionKeys |-> NoRequest]
  /\ got = [k \in SessionKeys |-> NullDoc]
  /\ result = [k \in SessionKeys |-> NoResult]
  /\ skippedOpen = {}
  /\ ttlMs = 1
  /\ store = EmptyMap
  /\ cacheLog = <<>>
  /\ call \in HashCalls \cup MergeCalls
  /\ ret = NoCall

\* computeModelsHash(models)
HashModels ==
  /\ call.op = "computeModelsHash"
  /\ ret = NoCall
  /\ ret' = [hash |-> ComputeModelsHash(call.models)]
  /\ last' = [op |-> "computeModelsHash"]
  /\ UNCHANGED <<cfg, now, roster, health, decisions,
                 lastOutcome, prevFailAt, rowFails, rowOk, streak, spent, cleared,
                 hookVars, call, cacheLog>>

\* mergeModelsIncremental(existing, discovered)
MergeModels ==
  /\ call.op = "mergeModelsIncremental"
  /\ ret = NoCall
  /\ ret' = [models |-> MergeModelsIncremental(call.existing, call.discovered),
             merges |-> 1]
  /\ last' = [op |-> "mergeModelsIncremental"]
  /\ UNCHANGED <<cfg, now, roster, health, decisions,
                 lastOutcome, prevFailAt, rowFails, rowOk, streak, spent, cleared,
                 hookVars, call, cacheLog>>

\* mergeModelsIncremental(merged, discovered): the stored result of a merge
\* merged with the same discovered list once more
MergeAgain ==
  /\ call.op = "mergeModelsIncremental"
  /\ ret # NoCall /\ ret.merges = 1
  /\ ret' = [models |-> MergeModelsIncremental(ret.models, call.discovered),
             merges |-> 2]
  /\ last' = [op |-> "mergeModelsIncremental", before |-> ret.models]
  /\ UNCHANGED <<cfg, now, roster, health, decisions,
                 lastOutcome, prevFailAt, rowFails, rowOk, streak, spent, cleared,
                 hookVars, call, cacheLog>>

\* the lists a later discovery can give
DiscoveredLists ==
  ListsOf({m \in DiscoveredModels : m.id \in {IdA, IdB, IdC}})

\* mergeModelsIncremental(stored, discovered) after the gateway configuration
\* has changed: the stored list is merged with another discovered list
MergeRediscovered ==
  /\ call.op = "mergeModelsIncremental"
  /\ ret # NoCall /\ ret.merges = 2
  /\ \E d \in DiscoveredLists :
       /\ ret' = [models |-> MergeModelsIncremental(ret.models, d),
                  merges |-> 3]
       /\ last' = [op |-> "mergeModelsIncremental", before |-> ret.models,
                   discovered |-> d]
  /\ UNCHANGED <<cfg, now, roster, health, decisions,
                 lastOutcome, prevFailAt, rowFails, rowOk, streak, spent, cleared,
                 hookVars, call, cacheLog>>

NextModels == HashModels \/ MergeModels \/ MergeAgain \/ MergeRediscovered

\* One call of computeModelsHash, or one merge followed by a second merge of
\* its result.
SpecModels == InitModels /\ [][NextModels]_vars

\* ------------------------------------------------------------------------
\* The routing collection and its writers
\* ------------------------------------------------------------------------
\* Here the collection is the sequence of its documents in natural order; a
\* document keeps agent_id, models, models_hash, classification, routing,
\* created_at and updated_at; classification and routing are "seed" as in
\* the seed file or "edited" by the user.

\* What discoverModels returns for the gateway configuration: both models,
\* or the second one alone.
GatewayConfigs ==
  {<<[id |-> IdA, tier |-> "fast", tools |-> TRUE, active |-> "unset"],
     [id |-> IdB, tier |-> "heavy", tools |-> TRUE, active |-> "unset"]>>,
   <<[id |-> IdB, tier |-> "heavy", tools |-> TRUE, active |-> "unset"]>>}

SetTierArgs == {"fast", "mid"}

Matching(col, agentId) == {i \in 1..Len(col) : col[i].agent_id = agentId}

FirstMatch(col, agentId) ==
  CHOOSE i \in Matching(col, agentId) : \A j \in Matching(col, agentId) : i <= j

\* col.findOne({ agent_id: agentId })
FindOne(col, agentId) ==
  IF Matching(col, agentId) = {} THEN NullDoc ELSE col[FirstMatch(col, agentId)]

\* { ...old, ...new }: the fields of new, and those of old that new lacks
SetFields(old, new) ==
  [f \in (DOMAIN old) \cup (DOMAIN new) |->
     IF f \in DOMAIN new THEN new[f] ELSE old[f]]

\* const { _id, created_at, updated_at, ...clean } = doc
Clean(doc) == [f \in (DOMAIN doc) \ {"_id", "created_at", "updated_at"} |-> doc[f]]

\* Variant: the document is inserted without looking for an existing one.
UpsertRoutingContext_InsertOne(col, doc, t) ==
  [col |-> Append(col, SetFields(Clean(doc),
                                 [updated_at |-> t, created_at |-> t])),
   action |-> "created"]

\* storeRoutingContext: updateOne(filter, {$set, $setOnInsert}, {upsert: true}).
\* The first matching document takes the fields of clean and updated_at, or a
\* new document is inserted with created_at as well.
UpsertRoutingContext(col, doc, t) ==
  IF Matching(col, doc.agent_id) # {}
  THEN [col |-> [col EXCEPT ![FirstMatch(col, doc.agent_id)] =
                   SetFields(@, SetFields(Clean(doc), [updated_at |-> t]))],
        action |-> "updated"]
  ELSE [col |-> Append(col, SetFields(Clean(doc),
                                      [updated_at |-> t, created_at |-> t])),
        action |-> "created"]

\* col.deleteOne({ agent_id: agentId })
DeleteOne(col, agentId) ==
  IF Matching(col, agentId) = {} THEN col
  ELSE [i \in 1..(Len(col) - 1) |->
          IF i < FirstMatch(col, agentId) THEN col[i] ELSE col[i + 1]]

\* the document built from the seed file and the discovered models
SeededDoc(agentId, discovered) ==
  [agent_id |-> agentId, models |-> discovered,
   models_hash |-> ComputeModelsHash(discovered),
   classification |-> "seed", routing |-> "seed"]

\* { ...existing, models: merged, models_hash: newHash }
MergedDoc(existing, discovered) ==
  [existing EXCEPT
     !.models = MergeModelsIncremental(existing.models, discovered),
     !.models_hash = ComputeModelsHash(discovered)]

\* doc.models.find((m) => m.id === opts.model); model.tier = opts.tier
HasModel(doc, id) == \E i \in 1..Len(doc.models) : doc.models[i].id = id

WithTier(doc, id, tier) ==
  LET i == CHOOSE i \in 1..Len(doc.models) :
             /\ doc.models[i].id = id
             /\ \A j \in 1..(i - 1) : doc.models[j].id # id
  IN [doc EXCEPT !.models[i].tier = tier]

StoreUnchanged ==
  UNCHANGED <<cfg, now, roster, health, decisions,
              lastOutcome, prevFailAt, rowFails, rowOk, streak, spent, cleared,
              ttlMs, result, skippedOpen, call, cacheLog>>

\* A command or the gateway start reads the document of the agent and
\* computes the hash of the models it discovers.
ReadContext(k, agentId, command, arg) ==
  /\ pc[k] = "idle"
  /\ pc' = [pc EXCEPT ![k] = command]
  /\ req' = [req EXCEPT ![k] = [agentId |-> agentId, arg |-> arg]]
  /\ got' = [got EXCEPT ![k] = FindOne(store, agentId)]
  /\ last' = [op |-> "findOne", caller |-> k, command |-> command,
              agentId |-> agentId]
  /\ UNCHANGED <<store, cache, ret>>
  /\ StoreUnchanged

\* The command ends without writing.
EndCommand(k, command) ==
  /\ pc' = [pc EXCEPT ![k] = "idle"]
  /\ req' = [req EXCEPT ![k] = NoRequest]
  /\ got' = [got EXCEPT ![k] = NullDoc]
  /\ last' = [op |-> "return", caller |-> k, command |-> command,
              agentId |-> req[k].agentId]
  /\ UNCHANGED <<store, cache, ret>>
  /\ StoreUnchanged

\* The command writes doc with storeRoutingContext, invalidates the cache
\* entry of the agent when invalidates, and ends.
WriteContext(k, command, doc, invalidates) ==
  LET r == UpsertRoutingContext(store, doc, now)
  IN /\ store' = r.col
     /\ ret' = [action |-> r.action]
     /\ cache' = IF invalidates
                 THEN CacheAfterInvalidate(cache, req[k].agentId)
                 ELSE cache
     /\ pc' = [pc EXCEPT ![k] = "idle"]
     /\ req' = [req EXCEPT ![k] = NoRequest]
     /\ got' = [got EXCEPT ![k] = NullDoc]
     /\ last' = [op |-> "storeRoutingContext", caller |-> k,
                 command |-> command, agentId |-> doc.agent_id,
                 action |-> r.action, readNull |-> IsNull(got[k]),
                 cached |-> req[k].agentId \in DOMAIN cache]
     /\ StoreUnchanged

\* gateway_start: getRoutingContext(col, cfg.agentId), discoverModels
GatewayStartRead(k) ==
  \E d \in GatewayConfigs : ReadContext(k, AgentId, "gateway_start", d)

\* Variant: when the hash differs the document is seeded again.
GatewayStartStore_Reseed(k) ==
  /\ pc[k] = "gateway_start"
  /\ IF IsNull(got[k])
     THEN WriteContext(k, "gateway_start",
                       SeededDoc(AgentId, req[k].arg), FALSE)
     ELSE IF got[k].models_hash # ComputeModelsHash(req[k].arg)
     THEN WriteContext(k, "gateway_start",
                       SeededDoc(AgentId, req[k].arg), TRUE)
     ELSE EndCommand(k, "gateway_start")

\* gateway_start: seed when absent, merge when the hash differs
GatewayStartStore(k) ==
  /\ pc[k] = "gateway_start"
  /\ IF IsNull(got[k])
     THEN WriteContext(k, "gateway_start",
                       SeededDoc(AgentId, req[k].arg), FALSE)
     ELSE IF got[k].models_hash # ComputeModelsHash(req[k].arg)
     THEN WriteContext(k, "gateway_start",
                       MergedDoc(got[k], req[k].arg), TRUE)
     ELSE EndCommand(k, "gateway_start")

\* routing set-tier: getRoutingContext(col, opts.agentId ?? cfg.agentId)
SetTierRead(k) ==
  \E t \in SetTierArgs : ReadContext(k, AgentId, "set-tier", t)

\* routing set-tier: "Routing not initialized." or model.tier = opts.tier,
\* storeRoutingContext, invalidate
SetTierStore(k) ==
  /\ pc[k] = "set-tier"
  /\ IF IsNull(got[k]) \/ ~HasModel(got[k], IdA)
     THEN EndCommand(k, "set-tier")
     ELSE WriteContext(k, "set-tier", WithTier(got[k], IdA, req[k].arg), TRUE)

\* routing rediscover: getRoutingContext(col, agentId), discoverModels
RediscoverRead(k) ==
  \E d \in GatewayConfigs : ReadContext(k, AgentId, "rediscover", d)

\* routing rediscover: initialize when absent, else merge, store, invalidate
RediscoverStore(k) ==
  /\ pc[k] = "rediscover"
  /\ IF IsNull(got[k])
     THEN WriteContext(k, "rediscover", SeededDoc(AgentId, req[k].arg), FALSE)
     ELSE WriteContext(k, "rediscover", MergedDoc(got[k], req[k].arg), TRUE)

\* routing reset: col.deleteOne({ agent_id }), routingCache.invalidate(agentId)
RoutingReset(k) ==
  /\ pc[k] = "idle"
  /\ store' = DeleteOne(store, AgentId)
  /\ cache' = CacheAfterInvalidate(cache, AgentId)
  /\ last' = [op |-> "deleteOne", caller |-> k, command |-> "reset",
              agentId |-> AgentId,
              deleted |-> Matching(store, AgentId) # {}]
  /\ UNCHANGED <<pc, req, got, ret>>
  /\ StoreUnchanged

\* The document of the other agent, and a document of the agent whose rules,
\* classification and model tiers the user has edited.
OtherDoc ==
  SetFields(SeededDoc("other", <<>>), [created_at |-> 0, updated_at |-> 0])

EditedDoc ==
  LET both == CHOOSE d \in GatewayConfigs : Len(d) = 2
  IN SetFields([WithTier(WithTier(SeededDoc(AgentId, both), IdA, "mid"),
                         IdB, "mid")
                  EXCEPT !.classification = "edited", !.routing = "edited"],
               [created_at |-> 0, updated_at |-> 0])

\* Before the first gateway start of the agent, or with the edited document
\* stored and cached.
InitStore ==
  /\ TrackerInit
  /\ cfg = ScaledDefaultConfig
  /\ roster = ModelIds
  /\ pc = [k \in SessionKeys |-> "idle"]
  /\ req = [k \in SessionKeys |-> NoRequest]
  /\ got = [k \in SessionKeys |-> NullDoc]
  /\ result = [k \in SessionKeys |-> NoResult]
  /\ skippedOpen = {}
  /\ call = NoCall
  /\ ret = NoCall
  /\ ttlMs = 1
  /\ cacheLog = <<>>
  /\ \/ store = <<OtherDoc>> /\ cache = EmptyMap
     \/ /\ store = <<OtherDoc, EditedDoc>>
        /\ cache = CacheAfterRead(EmptyMap, now, AgentId, EditedDoc)

NextStore ==
  \/ Tick
  \/ \E k \in SessionKeys : GatewayStartRead(k)
  \/ \E k \in SessionKeys : GatewayStartStore(k)
  \/ \E k \in SessionKeys : SetTierRead(k)
  \/ \E k \in SessionKeys : SetTierStore(k)
  \/ \E k \in SessionKeys : RediscoverRead(k)
  \/ \E k \in SessionKeys : RediscoverStore(k)
  \/ \E k \in SessionKeys : RoutingReset(k)

SpecStore == InitStore /\ [][NextStore]_vars

\* ------------------------------------------------------------------------
\* Steps, as seen from the history variable `last`
\* ------------------------------------------------------------------------
\* The step consumes an outcome (success = ok) for a decision bound to m.
ConsumedStep(m, ok) ==
  /\ last'.op = "recordOutcome"
  /\ last'.consumed
  /\ last'.model = m
  /\ last'.success = ok

\* The last step consumed an outcome (success = ok) for model m.
JustConsumed(m, ok) ==
  /\ last.op = "recordOutcome"
  /\ last.consumed
  /\ last.model = m
  /\ last.success = ok

\* The step is an explicit close of m's circuit.
ResetStep(m) ==
  \/ last'.op = "resetAll"
  \/ last'.op = "resetModel" /\ last'.model = m

StateOf(m) == GetState(health, cfg, now, m)
HealthyNow(m) == IsHealthy(health, cfg, now, m)

\* ------------------------------------------------------------------------
\* C1
\* ------------------------------------------------------------------------
\* C1 as stated: immediately after failureThreshold failures consumed for M
\* in a row (none of them followed by a success or a reset of M), M is open
\* and unhealthy; with fewer, M is closed and healthy.
C1_AsStated ==
  \A m \in ModelIds :
    /\ (JustConsumed(m, FALSE) /\ rowFails[m] = cfg.failureThreshold)
         => (StateOf(m) = "open" /\ ~HealthyNow(m))
    /\ rowFails[m] < cfg.failureThreshold
         => (StateOf(m) = "closed" /\ HealthyNow(m))

\* C1 (amended): immediately after failureThreshold failures consumed for M
\* in a row (none of them followed by a success or a reset of M), each at
\* most windowMs after the previous one, M is open and unhealthy; with fewer
\* than failureThreshold failures in the row M is closed and healthy.
C1_OpensAtThreshold ==
  \A m \in ModelIds :
    /\ (JustConsumed(m, FALSE) /\ rowFails[m] = cfg.failureThreshold /\ rowOk[m])
         => (StateOf(m) = "open" /\ ~HealthyNow(m))
    /\ rowFails[m] < cfg.failureThreshold
         => (StateOf(m) = "closed" /\ HealthyNow(m))

\* Two failures in a row reach a threshold of two and open the circuit.
C1_Witness ==
  /\ cfg.failureThreshold = 2
  /\ JustConsumed(IdA, FALSE)
  /\ rowFails[IdA] = 2
  /\ rowOk[IdA]
  /\ StateOf(IdA) = "open"

\* ------------------------------------------------------------------------
\* C2
\* ------------------------------------------------------------------------
\* C2: while M is open and a step neither consumes an outcome for M nor
\* resets M, M is half-open and healthy after the step iff cooldownMs has
\* elapsed since M's last consumed failure, and open and unhealthy otherwise.
C2_HalfOpenAfterCooldown ==
  [][\A m \in ModelIds :
       (/\ StateOf(m) = "open"
        /\ ~ConsumedStep(m, TRUE)
        /\ ~ConsumedStep(m, FALSE)
        /\ ~ResetStep(m))
       => IF now' - prevFailAt[m] >= cfg.cooldownMs
          THEN /\ GetState(health', cfg', now', m) = "half-open"
               /\ IsHealthy(health', cfg', now', m)
          ELSE /\ GetState(health', cfg', now', m) = "open"
               /\ ~IsHealthy(health', cfg', now', m)]_vars

\* The clock alone took M from open to half-open: the cooldown elapsed at
\* this very tick.
C2_Witness ==
  /\ last.op = "tick"
  /\ IdA \in DOMAIN health
  /\ health[IdA].consecutiveFailures >= cfg.failureThreshold
  /\ now - prevFailAt[IdA] = cfg.cooldownMs
  /\ StateOf(IdA) = "half-open"
  /\ HealthyNow(IdA)

\* ------------------------------------------------------------------------
\* C3
\* ------------------------------------------------------------------------
\* C3: a consumed success for M leaves consecutiveFailures = 0 and M closed
\* and healthy whatever M's state was; the first failure consumed for M after
\* a success leaves consecutiveFailures = 1.
C3_SuccessResets ==
  [][\A m \in ModelIds :
       /\ ConsumedStep(m, TRUE)
            => /\ m \in DOMAIN health'
               /\ health'[m].consecutiveFailures = 0
               /\ GetState(health', cfg', now', m) = "closed"
               /\ IsHealthy(health', cfg', now', m)
       /\ (ConsumedStep(m, FALSE) /\ lastOutcome[m] = "success")
            => /\ m \in DOMAIN health'
               /\ health'[m].consecutiveFailures = 1]_vars

\* A success was consumed while M was open.
C3_Witness ==
  /\ JustConsumed(IdA, TRUE)
  /\ last.before = "open"
  /\ health[IdA].consecutiveFailures = 0
  /\ StateOf(IdA) = "closed"

\* ------------------------------------------------------------------------
\* C4
\* ------------------------------------------------------------------------
\* The state the spec derives from the health entry.
DerivedState(m) ==
  IF m \notin DOMAIN health THEN "closed"
  ELSE IF health[m].consecutiveFailures < cfg.failureThreshold THEN "closed"
  ELSE IF now - health[m].lastFailureAt < cfg.cooldownMs THEN "open"
  ELSE "half-open"

\* C4: in every reachable state getState(M) is the derived state, isHealthy(M)
\* holds exactly when that state is not open, and a model for which no
\* outcome was ever consumed has no health entry, is closed and is absent
\* from snapshot().
C4_DerivedState ==
  \A m \in ModelIds :
    /\ StateOf(m) = DerivedState(m)
    /\ HealthyNow(m) <=> (DerivedState(m) # "open")
    /\ lastOutcome[m] = "none"
         => /\ m \notin DOMAIN health
            /\ StateOf(m) = "closed"
            /\ m \notin DOMAIN Snapshot(health, cfg, now)

\* All three derived states occur: M sits in half-open with an entry, while
\* the clock has advanced past the cooldown.
C4_Witness ==
  /\ IdA \in DOMAIN health
  /\ StateOf(IdA) = "half-open"
  /\ Snapshot(health, cfg, now)[IdA].state = "half-open"
  /\ lastOutcome[IdB] = "none"
  /\ IdB \notin DOMAIN Snapshot(health, cfg, now)

\* ------------------------------------------------------------------------
\* C5
\* ------------------------------------------------------------------------
ResolveStep(s) == pc[s] = "resolving" /\ pc'[s] = "running"

Names(r, m) == r.override /\ RecordedId(r.provider, r.model) = m

\* the model the routing document selects when health is left out
SelectedRegardlessOfHealth(s, m) ==
  /\ ~IsNull(got[s])
  /\ Len(got[s].models) > 0
  /\ Names(ResolveRoutingOverride(req[s].prompt, got[s],
                                  req[s].toolsInContext, NoPredicate), m)

\* C5: with the system driven only through before_agent_start and agent_end,
\* sessions interleaved, a resolution made while model M's circuit is open
\* never returns an override naming M (it returns another healthy model or
\* no override), and a resolution made while M is closed or half-open
\* returns M whenever M is the model the routing document selects for the
\* prompt: M comes back into use once its cooldown has passed, no operator
\* action being available.
C5_OpenModelNotSelected ==
  [][\A s \in SessionKeys, m \in ModelIds :
       ResolveStep(s) =>
         /\ (GetState(health, cfg, now, m) = "open" => ~Names(result'[s], m))
         /\ (GetState(health, cfg, now, m) # "open"
               /\ SelectedRegardlessOfHealth(s, m) => Names(result'[s], m))]_vars

\* IdA was passed over while open in an earlier resolution, and the last
\* resolution, made with IdA half-open, returned IdA.
C5_Witness ==
  /\ IdA \in skippedOpen
  /\ last.op = "before_agent_start"
  /\ last.override
  /\ last.id = IdA
  /\ StateOf(IdA) = "half-open"

\* ------------------------------------------------------------------------
\* C6
\* ------------------------------------------------------------------------
\* C6 as stated: a failure consumed for M while M is half-open leaves M open
\* and unhealthy, under every configuration and after any wait.
C6_AsStated ==
  \A m \in ModelIds :
    (JustConsumed(m, FALSE) /\ last.before = "half-open")
      => (StateOf(m) = "open" /\ ~HealthyNow(m))

\* C6 (amended): a failure consumed for M while M is half-open leaves M open
\* and unhealthy when at most windowMs has elapsed since M's previous
\* failure; when more has elapsed it starts a fresh streak
\* (consecutiveFailures = 1), and M is then open iff failureThreshold is 1
\* and closed otherwise.
C6_ReopensWithinWindow ==
  [][\A m \in ModelIds :
       (ConsumedStep(m, FALSE) /\ StateOf(m) = "half-open")
       => IF now - prevFailAt[m] <= cfg.windowMs
          THEN /\ GetState(health', cfg', now', m) = "open"
               /\ ~IsHealthy(health', cfg', now', m)
          ELSE /\ health'[m].consecutiveFailures = 1
               /\ GetState(health', cfg', now', m) =
                    (IF cfg.failureThreshold = 1 THEN "open" ELSE "closed")]_vars

\* A trial failed in half-open, within the window, under a threshold of two.
C6_Witness ==
  /\ cfg.failureThreshold = 2
  /\ JustConsumed(IdA, FALSE)
  /\ last.before = "half-open"
  /\ rowOk[IdA]
  /\ StateOf(IdA) = "open"

\* ------------------------------------------------------------------------
\* C7
\* ------------------------------------------------------------------------
\* C7: a failure consumed for M sets consecutiveFailures to 1 when M has a
\* previous failure more than windowMs old, and otherwise adds exactly 1 to
\* it (an absent entry counting as 0); lastFailureAt becomes the current
\* time and lastSuccessAt is unchanged.
C7_FailureUpdate ==
  [][\A m \in ModelIds :
       ConsumedStep(m, FALSE)
       => LET oldFailures ==
                IF m \in DOMAIN health THEN health[m].consecutiveFailures ELSE 0
              oldSuccessAt ==
                IF m \in DOMAIN health THEN health[m].lastSuccessAt ELSE 0
          IN /\ m \in DOMAIN health'
             /\ health'[m].consecutiveFailures =
                  (IF prevFailAt[m] > 0 /\ now - prevFailAt[m] > cfg.windowMs
                   THEN 1 ELSE oldFailures + 1)
             /\ health'[m].lastFailureAt = now
             /\ health'[m].lastSuccessAt = oldSuccessAt]_vars

\* The second failure of a row came after the window: the count restarted
\* at 1, with an earlier success still on record.
C7_Witness ==
  /\ JustConsumed(IdA, FALSE)
  /\ rowFails[IdA] = 2
  /\ ~rowOk[IdA]
  /\ health[IdA].consecutiveFailures = 1
  /\ health[IdA].lastFailureAt = now
  /\ health[IdA].lastSuccessAt > 0

\* ------------------------------------------------------------------------
\* C8
\* ------------------------------------------------------------------------
\* C8: recordOutcome for a session key with no pending decision changes
\* neither the health map nor the pending decisions.
C8_UnknownSessionNoOp ==
  [][\A k \in SessionKeys :
       (last'.op = "recordOutcome" /\ last'.key = k /\ k \notin DOMAIN decisions)
       => (health' = health /\ decisions' = decisions)]_vars

\* An outcome was dropped while health entries and another session's
\* decision existed.
C8_Witness ==
  /\ last.op = "recordOutcome"
  /\ ~last.consumed
  /\ DOMAIN health # {}
  /\ DOMAIN decisions # {}

\* ------------------------------------------------------------------------
\* C9
\* ------------------------------------------------------------------------
\* C9: once recordOutcome has consumed a session's decision the decision is
\* gone, and until a new recordDecision for that session every further
\* recordOutcome for it leaves the health map unchanged.
C9_ConsumedAtMostOnce ==
  /\ [](\A k \in SessionKeys : spent[k] => k \notin DOMAIN decisions)
  /\ [][\A k \in SessionKeys :
          (spent[k] /\ last'.op = "recordOutcome" /\ last'.key = k)
          => health' = health]_vars

\* A second outcome was reported for a session whose decision had been
\* consumed as a failure.
C9_Witness ==
  /\ spent["s1"]
  /\ last.op = "recordOutcome"
  /\ last.key = "s1"
  /\ ~last.consumed
  /\ ~last.success
  /\ IdA \in DOMAIN health
  /\ health[IdA].consecutiveFailures = 1

\* ------------------------------------------------------------------------
\* C10
\* ------------------------------------------------------------------------
\* C10: consuming an outcome for a decision bound to model A changes neither
\* the health entry nor the circuit state of any other model B.
C10_PerModelHealth ==
  [][\A a \in ModelIds, b \in ModelIds, ok \in BOOLEAN :
       (a # b /\ ConsumedStep(a, ok))
       => /\ (b \in DOMAIN health') <=> (b \in DOMAIN health)
          /\ b \in DOMAIN health => health'[b] = health[b]
          /\ GetState(health', cfg', now', b) = GetState(health, cfg, now, b)]_vars

\* A was just opened by a failure while B, with an entry of its own, is
\* closed.
C10_Witness ==
  /\ JustConsumed(IdA, FALSE)
  /\ StateOf(IdA) = "open"
  /\ IdB \in DOMAIN health
  /\ health[IdB].consecutiveFailures = 1
  /\ StateOf(IdB) = "closed"

\* ------------------------------------------------------------------------
\* C11
\* ------------------------------------------------------------------------
\* The step is recordOutcome for a session whose pending decision resetAll
\* removed and that has not been bound since.
OutcomeAfterResetAll(s) ==
  /\ s \in cleared
  /\ last'.op = "recordOutcome"
  /\ last'.key = s

\* C11: resetModel(M) removes M's health entry alone (M is closed and absent
\* from snapshot, every other model's entry and every pending decision are
\* as before); resetAll leaves no health entry and no pending decision
\* (snapshot is empty, every model is closed), and an outcome reported later
\* for a session that was bound before the resetAll is dropped.
C11_Resets ==
  [][/\ last'.op = "resetModel" =>
          /\ last'.model \notin DOMAIN health'
          /\ GetState(health', cfg', now', last'.model) = "closed"
          /\ last'.model \notin DOMAIN Snapshot(health', cfg', now')
          /\ \A o \in ModelIds \ {last'.model} :
               /\ (o \in DOMAIN health') = (o \in DOMAIN health)
               /\ o \in DOMAIN health => health'[o] = health[o]
          /\ decisions' = decisions
     /\ last'.op = "resetAll" =>
          /\ health' = EmptyMap
          /\ decisions' = EmptyMap
          /\ DOMAIN Snapshot(health', cfg', now') = {}
          /\ \A m \in ModelIds : GetState(health', cfg', now', m) = "closed"
     /\ \A s \in SessionKeys :
          OutcomeAfterResetAll(s) =>
            /\ ~last'.consumed
            /\ health' = health
            /\ decisions' = decisions]_vars

\* resetModel(IdA) has just removed IdA's entry, recorded after a failure,
\* while IdB keeps its own, a decision is pending, and the other session
\* lost its decision to an earlier resetAll.
C11_Witness ==
  /\ last.op = "resetModel"
  /\ last.model = IdA
  /\ prevFailAt[IdA] > 0
  /\ IdA \notin DOMAIN health
  /\ IdB \in DOMAIN health
  /\ "s1" \in DOMAIN decisions
  /\ "s2" \in cleared

\* ------------------------------------------------------------------------
\* The call of the resolver, as seen from `call` and `ret`
\* ------------------------------------------------------------------------
Returned == "override" \in DOMAIN ret

CallModels == call.doc.models
CallModelSet == {CallModels[i] : i \in 1..Len(CallModels)}
CallRouting == call.doc.routing
CallCategory == ClassifyPrompt(call.prompt, call.doc.classification).category

\* the model an override names
NamedBy(d, m) == d.override /\ m.id = RecordedId(d.provider, d.model)

\* the rules that match the classified category and the caller's flag
CallMatches ==
  {i \in 1..Len(CallRouting.rules) :
     /\ CallRouting.rules[i].if = CallCategory
     /\ CallRouting.rules[i].tools_in_context = call.toolsInContext}

\* the tier escalation starts from; "" when no escalation is attempted
CallStartTier ==
  LET matching == MatchingRules(CallRouting.rules, CallCategory, call.toolsInContext)
  IN IF Len(matching) > 0 THEN matching[1].then
     ELSE IF CallRouting.ambiguous_action = "use_default"
          THEN CallRouting.default_tier
          ELSE ""

ChainTiers(tier) == {TierChain(tier)[i] : i \in 1..Len(TierChain(tier))}

\* eligibility of a model, apart from its tier
CallEligible(m) ==
  /\ m.active # "false"
  /\ call.toolsInContext => m.tools
  /\ call.pred.given => m.id \in call.pred.healthy

\* ------------------------------------------------------------------------
\* C12
\* ------------------------------------------------------------------------
\* C12: for a call with toolsInContext = true, a returned override names a
\* model of the roster whose tools capability is true, and when some tier of
\* the escalation chain of the starting tier holds an eligible model with
\* tools the resolver returns an override, on such a model.
C12_ToolsRespected ==
  (Returned /\ call.toolsInContext) =>
    /\ ret.override =>
         \E m \in CallModelSet :
           NamedBy(ret, m) /\ m.tools /\ m.tier \in ChainTiers(CallStartTier)
    /\ (\E m \in CallModelSet :
          m.tier \in ChainTiers(CallStartTier) /\ CallEligible(m))
         => ret.override

\* The CHAT rule asks for the fast tier with tools in context, the fast
\* model has no tools, and the override names the mid model that has them.
C12_Witness ==
  /\ Returned
  /\ call.toolsInContext
  /\ CallStartTier = "fast"
  /\ Len(CallModels) = 2
  /\ CallModels[1].tier = "fast" /\ ~CallModels[1].tools
  /\ CallModels[1].active = "unset"
  /\ call.pred = NoPredicate
  /\ NamedBy(ret, CallModels[2])
  /\ ret.tier = "mid"

\* ------------------------------------------------------------------------
\* C13
\* ------------------------------------------------------------------------
\* the chain as the specification states it
StatedChain(tier) ==
  IF tier = "fast" THEN <<"fast", "mid", "heavy">>
  ELSE IF tier = "mid" THEN <<"mid", "heavy">>
  ELSE <<tier>>

\* positions, in the models list, of the eligible models of a tier
EligibleAt(tier) ==
  {i \in 1..Len(CallModels) :
     CallModels[i].tier = tier /\ CallEligible(CallModels[i])}

SetMin(S) == CHOOSE x \in S : \A y \in S : x <= y

TierRank(tier) ==
  CASE tier = "fast" -> 1 [] tier = "mid" -> 2 [] tier = "heavy" -> 3 [] OTHER -> 0

\* C13: escalation from a starting tier walks fast -> fast, mid, heavy;
\* mid -> mid, heavy; heavy -> heavy; any other tier alone, and returns the
\* first model, in models-list order, of the first tier of the chain that
\* has an eligible model (tier matches, active is not false, tools if
\* required, healthy if a predicate is given); with no such tier nothing is
\* returned. The model returned is never of a lower tier than the starting
\* tier and never inactive.
C13_EscalationChain ==
  (Returned /\ CallStartTier # "") =>
    LET chain == StatedChain(CallStartTier)
        tiersWithModel == {k \in 1..Len(chain) : EligibleAt(chain[k]) # {}}
    IN IF tiersWithModel = {}
       THEN ~ret.override
       ELSE LET tier == chain[SetMin(tiersWithModel)]
                m == CallModels[SetMin(EligibleAt(tier))]
            IN /\ NamedBy(ret, m)
               /\ ret.tier = tier
               /\ m.tier = tier
               /\ m.active # "false"
               /\ TierRank(m.tier) >= TierRank(CallStartTier)

\* Escalation started at fast, the fast model is inactive, there is no mid
\* model, and the heavy model, second in the list, is returned.
C13_Witness ==
  /\ Returned
  /\ CallStartTier = "fast"
  /\ Len(CallModels) = 2
  /\ CallModels[1].tier = "fast" /\ CallModels[1].active = "false"
  /\ CallModels[2].tier = "heavy"
  /\ NamedBy(ret, CallModels[2])
  /\ ret.tier = "heavy"

\* ------------------------------------------------------------------------
\* C14
\* ------------------------------------------------------------------------
\* C14: when a health predicate is supplied, the model a returned override
\* names satisfies the predicate; a model the predicate rejects is passed
\* over even when it is the first model of the requested tier; and when the
\* predicate rejects every model of the roster no override is returned.
C14_PredicateRespected ==
  (Returned /\ call.pred.given) =>
    /\ ret.override => RecordedId(ret.provider, ret.model) \in call.pred.healthy
    /\ \A m \in CallModelSet : m.id \notin call.pred.healthy => ~NamedBy(ret, m)
    /\ (\A m \in CallModelSet : m.id \notin call.pred.healthy) => ~ret.override

\* The first model is the only one of the requested tier, active, and
\* rejected by the predicate; the override names the second model.
C14_Witness ==
  /\ Returned
  /\ call.pred = Predicate({IdB})
  /\ ~call.toolsInContext
  /\ Len(CallModels) = 2
  /\ CallModels[1].tier = CallStartTier
  /\ CallModels[1].active = "unset"
  /\ CallModels[2].tier # CallStartTier
  /\ NamedBy(ret, CallModels[2])

\* ------------------------------------------------------------------------
\* C15
\* ------------------------------------------------------------------------
\* no tier of the chain of the starting tier has an eligible model
ChainExhausted ==
  \A k \in 1..Len(StatedChain(CallStartTier)) :
    EligibleAt(StatedChain(CallStartTier)[k]) = {}

AllTiersExhaustedReason ==
  <<"all_tiers_exhausted starting_tier=", CallStartTier,
    " tools=", BoolText(call.toolsInContext)>>

\* C15: whenever escalation is attempted, from the matched rule's tier or
\* from routing.default_tier when no rule matched and ambiguous_action is
\* "use_default", and no tier of the chain yields a candidate, the resolver
\* returns override: false with the reason
\* "all_tiers_exhausted starting_tier=<tier> tools=<bool>" for the tier the
\* escalation started from.
C15_AsStated ==
  (Returned /\ CallStartTier # "" /\ ChainExhausted) =>
    /\ ~ret.override
    /\ ret.reason = AllTiersExhaustedReason

\* The part of C15 that holds: escalation from a matched rule's tier.
C15_ExhaustedFromRule ==
  (Returned /\ CallMatches # {} /\ ChainExhausted) =>
    /\ ~ret.override
    /\ ret.reason = AllTiersExhaustedReason

\* No rule matched, ambiguous_action is "use_default", the chain of
\* default_tier has no candidate, and the reason returned is the
\* no_rule_match one.
C15_Witness ==
  /\ Returned
  /\ CallMatches = {}
  /\ CallRouting.ambiguous_action = "use_default"
  /\ ChainExhausted
  /\ ~ret.override
  /\ ret.reason = NoRuleMatchReason(ClassifyPrompt(call.prompt, call.doc.classification),
                                    call.toolsInContext)

\* ------------------------------------------------------------------------
\* C16
\* ------------------------------------------------------------------------
\* the rule the resolver applies
CallRule ==
  MatchingRules(CallRouting.rules, CallCategory, call.toolsInContext)[1]

\* the override is on another tier than the one the matched rule asks for
EscalatedFromRule ==
  /\ Returned
  /\ CallMatches # {}
  /\ ret.override
  /\ ret.tier # CallRule.then

\* the reason holds "<requested>→<selected>"
RecordsEscalation == Includes(ret.reason, <<CallRule.then, "→", ret.tier>>)

\* C16: whenever the override is on another tier than the one the matched
\* rule requested, the reason records the escalation as
\* "<requested>→<selected>", both when the rule carries a reason of its own
\* and when the reason is synthesized from category and tools flag.
C16_AsStated == EscalatedFromRule => RecordsEscalation

\* The part of C16 that holds: the rule carries a reason of its own.
C16_OwnReasonRecordsEscalation ==
  (EscalatedFromRule /\ CallRule.reason # <<>>) => RecordsEscalation

\* The CHAT rule without a reason asks for fast with tools in context, the
\* fast model has no tools, the override is on the mid model, and the reason
\* is "rule: CHAT+tools=true→mid".
C16_Witness ==
  /\ EscalatedFromRule
  /\ CallRule.reason = <<>>
  /\ CallRule.then = "fast"
  /\ call.toolsInContext
  /\ ret.tier = "mid"
  /\ ret.reason = <<"rule: ", "CHAT", "+tools=", "true", "→", "mid">>
  /\ ~RecordsEscalation

\* ------------------------------------------------------------------------
\* C17
\* ------------------------------------------------------------------------
\* positions of the matching rules of maximal priority
TopMatches ==
  {i \in CallMatches :
     \A j \in CallMatches :
       CallRouting.rules[j].priority <= CallRouting.rules[i].priority}

\* the rule the specification designates: the earliest of them
StatedRule == CallRouting.rules[SetMin(TopMatches)]

DistinctPriorities ==
  \A i \in CallMatches, j \in CallMatches :
    i # j => CallRouting.rules[i].priority # CallRouting.rules[j].priority

Reordered(rules, perm) == [i \in 1..Len(rules) |-> rules[perm[i]]]

\* C17: the rule the resolver applies is the earliest, in the stored list,
\* of the rules of maximal priority among those whose `if` is the classified
\* category and whose tools_in_context is the caller's flag, and when the
\* matching rules have distinct priorities every reordering of the stored
\* list gives the same rule.
C17_RuleChoice ==
  (Returned /\ CallMatches # {}) =>
    /\ CallRule = StatedRule
    /\ ret = ResolveWithRule(call.doc, StatedRule, call.toolsInContext, call.pred,
                             ClassifyPrompt(call.prompt, call.doc.classification))
    /\ DistinctPriorities =>
         \A perm \in Permutations(1..Len(CallRouting.rules)) :
           MatchingRules(Reordered(CallRouting.rules, perm),
                         CallCategory, call.toolsInContext)[1] = StatedRule

\* Two matching rules tied at priority 2, the one for heavy stored first:
\* the override is on the heavy model with that rule's reason.
C17_Witness ==
  /\ Returned
  /\ Cardinality(CallMatches) = 2
  /\ ~DistinctPriorities
  /\ CallRouting.rules[1].then = "heavy"
  /\ ret.override
  /\ ret.tier = "heavy"
  /\ ret.reason = <<"long talk">>

\* ------------------------------------------------------------------------
\* C18
\* ------------------------------------------------------------------------
NoRuleMatched == Returned /\ CallMatches = {}

CallClassified == ClassifyPrompt(call.prompt, call.doc.classification)

\* the call with an empty roster and no health predicate
ResolvedWithoutRoster ==
  ResolveRoutingOverride(call.prompt, [call.doc EXCEPT !.models = <<>>],
                         call.toolsInContext, NoPredicate)

\* C18: when no rule matches the (category, tools) pair and ambiguous_action
\* is "use_default", escalation starts from routing.default_tier and a model
\* found is returned as an override with the tier actually selected; for any
\* other ambiguous_action the result is override: false, with a reason
\* naming the category, the tools flag and the matched indicators, and it is
\* the result the call gives with an empty roster and no health predicate.
C18_NoRuleMatched ==
  NoRuleMatched =>
    IF CallRouting.ambiguous_action = "use_default"
    THEN LET chain == StatedChain(CallRouting.default_tier)
             tiersWithModel == {k \in 1..Len(chain) : EligibleAt(chain[k]) # {}}
         IN tiersWithModel # {} =>
              /\ ret.override
              /\ ret.tier = chain[SetMin(tiersWithModel)]
              /\ NamedBy(ret, CallModels[SetMin(EligibleAt(ret.tier))])
              /\ CallModels[SetMin(EligibleAt(ret.tier))].tier = ret.tier
    ELSE /\ ~ret.override
         /\ ret.reason =
              <<"no_rule_match category=", CallCategory,
                " tools=", BoolText(call.toolsInContext), " indicators=[">>
                \o JoinComma(CallClassified.matchedIndicators) \o <<"]">>
         /\ ret = ResolvedWithoutRoster

\* No rule matched, ambiguous_action is "use_default", default_tier mid has
\* no eligible model, and the override is on the heavy model with tier heavy.
C18_Witness ==
  /\ NoRuleMatched
  /\ CallRouting.ambiguous_action = "use_default"
  /\ CallRouting.default_tier = "mid"
  /\ EligibleAt("mid") = {}
  /\ ret.override
  /\ ret.tier = "heavy"

\* ------------------------------------------------------------------------
\* C19  RoutingCache: reads within the TTL, invalidate
\* ------------------------------------------------------------------------
GetOf(agentId) == last'.op = "get" /\ last'.agentId = agentId

\* the latest get for AgentId was made for a provisioned agent
PrevProvisioned ==
  IF cacheLog.prev.returned THEN ~IsNull(cacheLog.prev.doc)
  ELSE req[cacheLog.prev.caller].prov

\* a get made less than ttlMs after a get that read the store, with no
\* invalidate in between, does not read the store and returns the same
\* document
TwoGetsOneRead ==
  (/\ GetOf(AgentId)
   /\ cacheLog.prev.made /\ cacheLog.prev.missed /\ PrevProvisioned
   /\ now - cacheLog.prev.at < ttlMs
   /\ cacheLog.inval = "no")
  => /\ last'.hit
     /\ cacheLog.prev.returned => last'.doc = cacheLog.prev.doc

\* the first get after an invalidate reads the store
InvalidateForcesRead ==
  (GetOf(AgentId) /\ cacheLog.inval # "no" /\ Provisioned(store, AgentId))
  => ~last'.hit

\* invalidate(agentId) leaves the entries of the other agents as they were
InvalidateKeepsOthers ==
  last'.op = "invalidate" =>
    \A b \in AgentIds \ {last'.agentId} :
      b \in DOMAIN cache => b \in DOMAIN cache' /\ cache'[b] = cache[b]

\* C19: for a provisioned agent, two get(agentId) calls made within ttlMs of
\* each other cause exactly one read of the store and return the same
\* document; after invalidate(agentId) or invalidate() the next get(agentId)
\* reads the store again; invalidate(agentId) does not drop the entries of
\* other agents.
C19_AsStated ==
  [][TwoGetsOneRead /\ InvalidateForcesRead /\ InvalidateKeepsOthers]_vars

\* a get of AgentId answered from the cache although the entry was
\* invalidated since the previous get: a read issued before the invalidate
\* filled the entry again, with the document stored before the last write
C19_Witness ==
  /\ last.op = "get" /\ last.agentId = AgentId /\ last.hit
  /\ last.inval = "refilled"
  /\ cacheLog.writes = 2
  /\ last.doc # store[AgentId]

\* ------------------------------------------------------------------------
\* C20  RoutingCache: a null read is not cached
\* ------------------------------------------------------------------------
\* a get made while no document has been stored for the agent yet finds no
\* fresh entry
UnprovisionedGetReads ==
  (GetOf(AgentId) /\ cacheLog.writes = 0) => ~last'.hit

\* a get whose read found no document returns null and leaves the cache as
\* it was
NullReadNotCached ==
  (last'.op = "getDone" /\ IsNull(last'.doc)) => cache' = cache

\* a get answered from the cache returns a document of the agent; a get made
\* once the agent's document has been stored, and returning while that is
\* the only write, returns the stored document
ProvisionedGetReturnsDoc ==
  /\ (last'.op = "get" /\ last'.hit) =>
       /\ ~IsNull(last'.doc) /\ last'.doc.agent_id = last'.agentId
       /\ (last'.agentId = AgentId /\ cacheLog.writes = 1)
            => last'.doc = store[AgentId]
  /\ (last'.op = "getDone" /\ last'.prov) =>
       /\ (last'.agentId = AgentId /\ cacheLog.writes = 1)
            => last'.doc = store[AgentId]
       /\ last'.agentId # AgentId => last'.doc = store[last'.agentId]

NoNullEntry ==
  \A a \in DOMAIN cache : ~IsNull(cache[a].doc) /\ cache[a].doc.agent_id = a

C21_AsStated ==
  \A s \in SessionKeys : (pc[s] = "reading") ~> (pc[s] # "reading")

\* a handler still suspended on its store read when the clock has run out,
\* nothing returned to the agent and no entry in the cache
C21_Witness ==
  \E s \in SessionKeys :
    /\ pc[s] = "reading"
    /\ now = MaxNow
    /\ result[s] = NoResult
    /\ AgentId \notin DOMAIN cache

\* ------------------------------------------------------------------------
\* C22  before_agent_start: a failing store
\* ------------------------------------------------------------------------
\* the hook of session s returned from its catch block
HookFailedStep(s) ==
  /\ pc[s] \in {"idle", "reading"} /\ pc'[s] = "running"
  /\ last'.op = "before_agent_start" /\ last'.key = s
  /\ "error" \in DOMAIN last'

\* C22: when obtaining the collection or reading the routing context throws,
\* the hook returns no override and raises nothing; no decision is recorded,
\* health and cache are as they were, and so is everything a later prompt is
\* routed from (store, clock, configuration), so that prompt is routed as if
\* the failure had not happened.
C22_FailureContained ==
  [][\A s \in SessionKeys :
       HookFailedStep(s) =>
         /\ result'[s] = NoResult
         /\ s \notin DOMAIN decisions'
         /\ UNCHANGED <<decisions, health, cache, store, cfg, now, ttlMs>>
         /\ \A k \in SessionKeys \ {s} :
              UNCHANGED <<pc[k], req[k], got[k], result[k]>>]_vars

\* the read of a provisioned agent's document has just failed for a session:
\* no override, no decision, no entry, health untouched so far
C22_Witness ==
  /\ last.op = "before_agent_start" /\ "error" \in DOMAIN last
  /\ pc[last.key] = "running" /\ result[last.key] = NoResult
  /\ last.key \notin DOMAIN decisions
  /\ Provisioned(store, AgentId) /\ Len(store[AgentId].models) > 0
  /\ AgentId \notin DOMAIN cache
  /\ health = EmptyMap

\* ------------------------------------------------------------------------
\* C23  the decision is recorded before the hook returns
\* ------------------------------------------------------------------------
OverrideReturnStep(s) ==
  pc[s] = "resolving" /\ pc'[s] = "running" /\ result'[s].override

NoOverrideReturnStep(s) ==
  pc[s] # "running" /\ pc'[s] = "running" /\ ~result'[s].override

\* the id recorded for the override returned to session s
SelectedId(s) == RecordedId(result[s].provider, result[s].model)

RunningOnOverride(s) == pc[s] = "running" /\ result[s].override

BoundToSelected(s) ==
  s \in DOMAIN decisions /\ decisions[s].modelId = SelectedId(s)

AttributedTo(id) ==
  /\ id \in DOMAIN health'
  /\ \/ health'[id].lastSuccessAt = now /\ health'[id].consecutiveFailures = 0
     \/ health'[id].lastFailureAt = now /\ health'[id].consecutiveFailures >= 1
  /\ \A m \in DOMAIN health' \ {id} : m \in DOMAIN health /\ health'[m] = health[m]

\* the pending decision of s is older than the decision TTL and another
\* session's recordDecision takes the count above MAX_DECISIONS
SweptByAnotherDecision(s) ==
  /\ decisions[s].timestamp < now - DECISION_TTL_MS
  /\ \E k \in SessionKeys \ {s} :
       /\ OverrideReturnStep(k)
       /\ Cardinality(DOMAIN decisions \cup {k}) > MAX_DECISIONS

NoGetInFlight(agentId) ==
  \A k \in SessionKeys : pc[k] # "idle" => req[k].agentId # agentId

\* C24: whatever the interleaving of a get suspended on its store read with a
\* mutation of the agent's document followed by invalidate(agentId), a get
\* that starts after the invalidate yields the document as it is after the
\* mutation, and the cache does not end up holding the document as it was
\* before.
C24_AsStated ==
  /\ [][(GetOf(AgentId) /\ cacheLog.invalidated /\ last'.hit)
          => last'.doc = GetRoutingContext(store, AgentId)]_vars
  /\ []((cacheLog.invalidated /\ NoGetInFlight(AgentId)
         /\ AgentId \in DOMAIN cache)
          => cache[AgentId].doc = GetRoutingContext(store, AgentId))

\* the document was rewritten and the entry invalidated while a get was
\* suspended; that get has since returned, no get is in flight, and the
\* cache holds the document as it was before the rewrite
C24_Witness ==
  /\ cacheLog.invalidated /\ cacheLog.writes = 2
  /\ NoGetInFlight(AgentId)
  /\ AgentId \in DOMAIN cache
  /\ Provisioned(store, AgentId)
  /\ cache[AgentId].doc # store[AgentId]
  /\ CacheFresh(cache, now, ttlMs, AgentId)

\* ------------------------------------------------------------------------
\* C25, C26  mergeModelsIncremental
\* ------------------------------------------------------------------------
Merged(n) ==
  call.op = "mergeModelsIncremental" /\ ret # NoCall /\ ret.merges = n

UniqueIds(models) == Cardinality(IdSet(models)) = Len(models)

\* C25: for all lists existing and discovered, merging the result of
\* mergeModelsIncremental(existing, discovered) with discovered once more
\* gives the same list: same models, same order, same field values.
C25_MergeIdempotent ==
  Merged(2) => ret.models = last.before

\* merged twice: a stored model no longer discovered, a model discovered for
\* the first time, a stored model still discovered
C25_Witness ==
  /\ Merged(2)
  /\ \E i \in 1..Len(call.existing) :
       call.existing[i].id \notin IdSet(call.discovered)
  /\ \E i \in 1..Len(call.existing) :
       call.existing[i].id \in IdSet(call.discovered)
  /\ \E j \in 1..Len(call.discovered) :
       call.discovered[j].id \notin IdSet(call.existing)

\* positions of the discovered models whose id is not an existing one
NewPositions ==
  {j \in 1..Len(call.discovered) :
     call.discovered[j].id \notin IdSet(call.existing)}

\* the k-th of them, in discovered order
NthNew(k) ==
  CHOOSE j \in NewPositions : Cardinality({x \in NewPositions : x < j}) = k - 1

\* C26: for lists with unique ids the result holds exactly the ids of
\* existing and discovered, each once: first every existing model in its
\* original order, identical in every field when its id is discovered and
\* identical except active = false otherwise, then the discovered models
\* whose id is not an existing one, in discovered order; none is removed.
C26_MergeResult ==
  (Merged(1) /\ UniqueIds(call.existing) /\ UniqueIds(call.discovered)) =>
    LET e == call.existing
        d == call.discovered
        r == ret.models
    IN /\ IdSet(r) = IdSet(e) \cup IdSet(d)
       /\ UniqueIds(r)
       /\ Len(r) = Len(e) + Cardinality(NewPositions)
       /\ \A i \in 1..Len(e) :
            IF e[i].id \in IdSet(d) THEN r[i] = e[i]
            ELSE r[i] = [e[i] EXCEPT !.active = "false"]
       /\ \A k \in 1..Cardinality(NewPositions) : r[Len(e) + k] = d[NthNew(k)]

\* merged once, ids unique: an edited stored model still discovered (with
\* another tier in the discovered list), an active stored model no longer
\* discovered, and a new model
C26_Witness ==
  /\ Merged(1) /\ UniqueIds(call.existing) /\ UniqueIds(call.discovered)
  /\ \E i \in 1..Len(call.existing) :
       /\ call.existing[i].id \in IdSet(call.discovered)
       /\ call.existing[i].use_when # <<>>
       /\ call.existing[i].tier = "heavy"
  /\ \E i \in 1..Len(call.existing) :
       /\ call.existing[i].id \notin IdSet(call.discovered)
       /\ call.existing[i].active = "unset"
       /\ ret.models[i].active = "false"
  /\ NewPositions # {}

\* ------------------------------------------------------------------------
\* C27  computeModelsHash
\* ------------------------------------------------------------------------
Hashed == call.op = "computeModelsHash" /\ ret # NoCall

HashedLists == {c.models : c \in HashCalls}

IdCount(models, id) == Cardinality({i \in 1..Len(models) : models[i].id = id})

\* the same ids, each as many times
SameIds(l, m) == \A id \in HashedIds : IdCount(l, id) = IdCount(m, id)

\* C27 as stated: the hash depends only on the collection of ids, not on
\* their order nor on another field: lists with the same ids give the same
\* hash, lists with different id sets give different hashes.
C27_AsStated ==
  Hashed =>
    \A l \in HashedLists :
      /\ SameIds(l, call.models) => ComputeModelsHash(l) = ret.hash
      /\ IdSet(l) # IdSet(call.models) => ComputeModelsHash(l) # ret.hash

RosterLists == {l \in HashedLists : IdSet(l) \subseteq {IdA, IdB, IdC}}

\* C27 (amended): lists with the same ids, in any order and whatever the
\* other fields, give the same hash; the lists over the ids a/x, b/y, c/z
\* (among them [A,B] and [A,C]) give different hashes when their id sets
\* differ; lists with different id sets may give the same hash.
C27_HashOfIds ==
  Hashed =>
    /\ \A l \in HashedLists :
         SameIds(l, call.models) => ComputeModelsHash(l) = ret.hash
    /\ call.models \in RosterLists =>
         \A l \in RosterLists :
           IdSet(l) # IdSet(call.models) => ComputeModelsHash(l) # ret.hash

\* the hash of [b/y (heavy), a/x (fast)] has been computed, a list that is
\* not in sorted order
C27_Witness ==
  /\ Hashed
  /\ Ids(call.models) = <<IdB, IdA>>
  /\ call.models[1].tier # call.models[2].tier

\* ------------------------------------------------------------------------
\* C28
\* ------------------------------------------------------------------------
Classified == last.op = "classifyPrompt"

\* the number of indicators of a category that occur in the prompt, plus the
\* path and code block boosts of CODE
IndicatorHits(cat) ==
  LET inds == call.classification.indicators
      lower == ToLowerCase(call.prompt)
  IN IF \E i \in 1..Len(inds) : inds[i].category = cat
     THEN LET e == inds[CHOOSE i \in 1..Len(inds) : inds[i].category = cat]
          IN Cardinality({j \in 1..Len(e.indicators) :
                            Includes(lower, ToLowerCase(e.indicators[j]))})
     ELSE 0

CodeBoost ==
  (IF \E i \in 1..Len(call.classification.path_patterns) :
        Includes(call.prompt, call.classification.path_patterns[i])
   THEN 1 ELSE 0)
  + (IF RegexTest(call.classification.code_block_regex, call.prompt)
     THEN 2 ELSE 0)

ScoreOf(cat) == IndicatorHits(cat) + (IF cat = "CODE" THEN CodeBoost ELSE 0)

ScoringCategories ==
  {"CODE"} \cup {call.classification.indicators[i].category :
                   i \in 1..Len(call.classification.indicators)}

TopScore ==
  CHOOSE n \in {ScoreOf(c) : c \in ScoringCategories} :
    \A c \in ScoringCategories : ScoreOf(c) <= n

WinnerRange ==
  IF ret.category \in DOMAIN call.classification.categories
  THEN call.classification.categories[ret.category]
  ELSE <<1, 3>>

\* C28: the complexity returned by classifyPrompt lies within the range
\* declared for the winning category, or within [1, 3] when the winner has
\* no declared range; it is min(high, low + winning score), the winner has
\* the highest score, and it is "CHAT" with score 0 when no category scored.
C28_ComplexityInRange ==
  Classified =>
    /\ WinnerRange[1] <= ret.complexity
    /\ ret.complexity <= WinnerRange[2]
    /\ ret.complexity = Min(WinnerRange[2], WinnerRange[1] + TopScore)
    /\ TopScore = 0 => ret.category = "CHAT"
    /\ TopScore > 0 => ScoreOf(ret.category) = TopScore

\* CODE wins with a declared range that its score overshoots: the result is
\* the upper end of the range.
C28_Witness ==
  /\ Classified
  /\ ret.category = "CODE"
  /\ "CODE" \in DOMAIN call.classification.categories
  /\ WinnerRange[1] + TopScore > WinnerRange[2]
  /\ ret.complexity = WinnerRange[2]
  /\ WinnerRange[1] < WinnerRange[2]

\* ------------------------------------------------------------------------
\* C29
\* ------------------------------------------------------------------------
DocsOf(col, agentId) == SelectSeq(col, LAMBDA d : d.agent_id = agentId)

OneDocPerAgent == \A a \in AgentIds : Len(DocsOf(store, a)) <= 1

\* a storeRoutingContext step leaves one document for the agent: a new one
\* when there was none, reported as created, otherwise the one there was, at
\* its place and with its created_at, reported as updated
WriteIsUpsert ==
  (last'.op = "storeRoutingContext") =>
    LET a == last'.agentId
        before == DocsOf(store, a)
        after == DocsOf(store', a)
    IN /\ Len(after) = 1
       /\ after[1].updated_at = now
       /\ ret'.action = last'.action
       /\ IF Len(before) = 0
          THEN /\ last'.action = "created"
               /\ after[1].created_at = now
               /\ Len(store') = Len(store) + 1
          ELSE /\ last'.action = "updated"
               /\ after[1].created_at = before[1].created_at
               /\ Len(store') = Len(store)
               /\ FirstMatch(store', a) = FirstMatch(store, a)

\* a step that removes a document of an agent is the reset of that agent
OnlyResetDeletes ==
  \A a \in AgentIds :
    (Len(DocsOf(store', a)) < Len(DocsOf(store, a))) =>
      /\ last'.op = "deleteOne"
      /\ last'.command = "reset"
      /\ last'.agentId = a

\* a step about one agent leaves the documents of the others as they were
KeyedByAgentId ==
  \A a \in AgentIds :
    (last'.op \in {"storeRoutingContext", "deleteOne"} /\ last'.agentId # a)
      => DocsOf(store', a) = DocsOf(store, a)

\* C29: under every interleaving of gateway start seeding, set-tier,
\* rediscover and reset, the collection holds at most one Routing Context
\* per agent_id; every write is an upsert keyed by agent_id that creates the
\* document when absent, reporting "created", or updates it in place keeping
\* created_at, reporting "updated"; only reset deletes a document.
C29_OneContextPerAgent ==
  /\ []OneDocPerAgent
  /\ [][WriteIsUpsert /\ OnlyResetDeletes /\ KeyedByAgentId]_vars

\* A writer that read no document finds one at its write, stored meanwhile
\* by another writer: the write is reported as updated and the collection
\* still holds one document for the agent.
C29_Witness ==
  /\ last.op = "storeRoutingContext"
  /\ last.readNull
  /\ last.action = "updated"
  /\ Len(DocsOf(store, AgentId)) = 1
  /\ Len(DocsOf(store, "other")) = 1

\* ------------------------------------------------------------------------
\* C30
\* ------------------------------------------------------------------------
StateAfterStep(m) == GetState(health', cfg', now', m)

\* a half-open model is offered to every session that asks
HalfOpenIsHealthy ==
  \A m \in ModelIds :
    (StateOf(m) = "half-open") => IsHealthy(health, cfg, now, m)

\* recordDecision leaves the health records and every model's state alone
DecisionKeepsState ==
  (last'.op = "recordDecision") =>
    /\ health' = health
    /\ \A m \in ModelIds : StateAfterStep(m) = StateOf(m)

OutcomeConsumedFor(m) ==
  last'.op = "recordOutcome" /\ last'.consumed /\ last'.model = m

ResetOf(m) ==
  last'.op = "resetAll" \/ (last'.op = "resetModel" /\ last'.model = m)

\* a half-open model stays half-open, and healthy, through every step that
\* does not consume an outcome for it; a reset makes it closed
HalfOpenUntilOutcome ==
  \A m \in ModelIds :
    (StateOf(m) = "half-open" /\ ~OutcomeConsumedFor(m)) =>
      /\ IsHealthy(health', cfg', now', m)
      /\ StateAfterStep(m) = IF ResetOf(m) THEN "closed" ELSE "half-open"

\* C30: while a model is half-open recordDecision does not change its state
\* and nothing limits the trials: isHealthy answers true for it to every
\* session, whatever the number of sessions already bound to it, until an
\* outcome for the model is consumed.
C30_HalfOpenTrials ==
  /\ []HalfOpenIsHealthy
  /\ [][DecisionKeepsState /\ HalfOpenUntilOutcome]_vars

\* Every session has been bound to the model since it became half-open, the
\* last of them just now, and the model is still half-open.
C30_Witness ==
  /\ last.op = "recordDecision"
  /\ StateOf(IdA) = "half-open"
  /\ IsHealthy(health, cfg, now, IdA)
  /\ \A s \in SessionKeys :
       /\ s \in DOMAIN decisions
       /\ decisions[s].modelId = IdA
       /\ decisions[s].timestamp - health[IdA].lastFailureAt >= cfg.cooldownMs

\* ------------------------------------------------------------------------
\* C31
\* ------------------------------------------------------------------------
StaleDecision(s) ==
  s \in DOMAIN decisions /\ now - decisions[s].timestamp > DECISION_TTL_MS

\* no pending decision is older than the TTL
NoStaleDecision == \A s \in SessionKeys : ~StaleDecision(s)

\* an outcome reported for a session whose decision is older than the TTL
\* changes no model's health
StaleOutcomeIgnored ==
  \A s \in SessionKeys :
    (StaleDecision(s) /\ last'.op = "recordOutcome" /\ last'.key = s)
      => health' = health

\* C31: the lifetime of a pending decision is bounded by the decision TTL: it
\* is removed when recordOutcome consumes it or once it is older than the
\* TTL, so an outcome reported for a session whose decision is older than the
\* TTL changes no model's health.
C31_AsStated == [][StaleOutcomeIgnored]_vars

\* A failure has been counted for a model through a decision that was older
\* than the TTL when it was consumed.
C31_Witness ==
  /\ last.op = "recordOutcome"
  /\ last.consumed
  /\ ~last.success
  /\ last.model \in DOMAIN health
  /\ health[last.model].lastFailureAt = now
  /\ now - last.timestamp > DECISION_TTL_MS

\* ------------------------------------------------------------------------
\* C32
\* ------------------------------------------------------------------------
\* the stored list held no inactive model before the first merge
StartedActive ==
  \A i \in 1..Len(call.existing) : call.existing[i].active # "false"

\* C32: after a sequence of discoveries and incremental merges a model has
\* active = false only if its id is absent from the discovered list merged
\* last; a model marked inactive that is discovered again is active, and
\* selectable, after the merge.
C32_AsStated ==
  (Merged(3) /\ StartedActive) =>
    \A i \in 1..Len(ret.models) :
      (ret.models[i].active = "false")
        => ret.models[i].id \notin IdSet(last.discovered)

\* The only stored model was active, was not discovered at the first merge
\* and is discovered at the last one: it is still inactive and no candidate
\* of its tier.
C32_Witness ==
  /\ Merged(3)
  /\ StartedActive
  /\ Len(call.existing) = 1
  /\ call.discovered = <<>>
  /\ IdSet(last.discovered) = {call.existing[1].id}
  /\ Len(ret.models) = 1
  /\ ret.models[1].active = "false"
  /\ Candidates(ret.models, ret.models[1].tier, FALSE, NoPredicate) = <<>>

\* ------------------------------------------------------------------------
\* C33
\* ------------------------------------------------------------------------
\* the step in which the gateway start of caller k acts on what it read
GatewayStartStep(k) == pc[k] = "gateway_start" /\ pc'[k] = "idle"

StoredDoc(col, agentId) == DocsOf(col, agentId)[1]

\* no context was read: one is stored, made of the seed, the discovered
\* models and their hash; the cache is not touched
SeedsWhenAbsent(k) ==
  IsNull(got[k]) =>
    /\ Len(DocsOf(store', AgentId)) = 1
    /\ Clean(StoredDoc(store', AgentId)) =
         [agent_id |-> AgentId, models |-> req[k].arg,
          models_hash |-> ComputeModelsHash(req[k].arg),
          classification |-> "seed", routing |-> "seed"]
    /\ (DocsOf(store, AgentId) = <<>>) =>
         StoredDoc(store', AgentId).created_at = now
    /\ cache' = cache

\* the context read has the hash of the discovered models: nothing is
\* written and nothing invalidated
UntouchedWhenSameHash(k) ==
  (~IsNull(got[k]) /\ got[k].models_hash = ComputeModelsHash(req[k].arg)) =>
    /\ store' = store
    /\ cache' = cache

\* the context read has another hash: the stored context gets the merged models
\* and the new hash, keeps classification, rules and every model still
\* discovered as it was read, and the cache entry of the agent is dropped
MergesWhenHashDiffers(k) ==
  (~IsNull(got[k]) /\ got[k].models_hash # ComputeModelsHash(req[k].arg)) =>
    LET after == StoredDoc(store', AgentId)
    IN /\ Len(DocsOf(store', AgentId)) = 1
       /\ after.models = MergeModelsIncremental(got[k].models, req[k].arg)
       /\ after.models_hash = ComputeModelsHash(req[k].arg)
       /\ after.classification = got[k].classification
       /\ after.routing = got[k].routing
       /\ \A i \in 1..Len(got[k].models) :
            (got[k].models[i].id \in IdSet(req[k].arg))
              => after.models[i] = got[k].models[i]
       /\ (DocsOf(store, AgentId) # <<>>) =>
            after.created_at = StoredDoc(store, AgentId).created_at
       /\ AgentId \notin DOMAIN cache'

\* C33: on gateway start with routing enabled, a missing context is created
\* from the seed with the discovered models and their hash; a context whose
\* models_hash equals the hash of the discovered models is left untouched, no
\* write and no cache invalidation; with another hash, models becomes the
\* incremental merge and models_hash the new hash while rules, classification
\* and the user's edits of surviving models are kept, and the agent's cache
\* entry is invalidated.
C33_GatewayStartSeeding ==
  [][\A k \in SessionKeys :
       GatewayStartStep(k) =>
         /\ SeedsWhenAbsent(k)
         /\ UntouchedWhenSameHash(k)
         /\ MergesWhenHashDiffers(k)]_vars

\* A gateway start found the edited context, cached, with a model no longer
\* discovered: the edits are still there, the missing model is inactive and
\* the cache entry is gone.
C33_Witness ==
  /\ last.op = "storeRoutingContext"
  /\ last.command = "gateway_start"
  /\ ~last.readNull
  /\ last.cached
  /\ AgentId \notin DOMAIN cache
  /\ Len(DocsOf(store, AgentId)) = 1
  /\ StoredDoc(store, AgentId).routing = "edited"
  /\ StoredDoc(store, AgentId).classification = "edited"
  /\ StoredDoc(store, AgentId).models =
       <<[id |-> IdA, tier |-> "mid", tools |-> TRUE, active |-> "false"],
         [id |-> IdB, tier |-> "mid", tools |-> TRUE, active |-> "unset"]>>
  /\ StoredDoc(store, AgentId).models_hash # EditedDoc.models_hash

C35_ContextUntouched ==
  [][(last'.op = "resolveRoutingOverride") =>
       /\ call'.doc.models = call.doc.models
       /\ call'.doc.routing = call.doc.routing
       /\ call'.doc.classification = call.doc.classification
       /\ call'.doc = call.doc]_vars

\* Two stored rules match the prompt, the one with the lower priority first:
\* the call chose by the other one and the stored order is as it was.
C35_Witness ==
  /\ last.op = "resolveRoutingOverride"
  /\ call.prompt = PromptChat
  /\ ~call.toolsInContext
  /\ Len(call.doc.routing.rules) = 2
  /\ call.doc.routing.rules[1].priority = 1
  /\ call.doc.routing.rules[2].priority = 2
  /\ ~call.doc.routing.rules[1].tools_in_context
  /\ ~call.doc.routing.rules[2].tools_in_context
  /\ ret.override
  /\ ret.tier = call.doc.routing.rules[2].then

\* ------------------------------------------------------------------------
\* C36
\* ------------------------------------------------------------------------
\* recordDecision leaves the session bound to the model it names, whatever
\* the session was bound to
DecisionReplaces ==
  (last'.op = "recordDecision") =>
    /\ last'.key \in DOMAIN decisions'
    /\ decisions'[last'.key] = [modelId |-> last'.model, timestamp |-> now]

\* the binding of a session changes in no other step
BoundOnlyByRecordDecision ==
  \A s \in SessionKeys :
    (s \in DOMAIN decisions' /\ (s \notin DOMAIN decisions
                                   \/ decisions'[s] # decisions[s]))
      => (last'.op = "recordDecision" /\ last'.key = s)

\* an outcome changes the health of the model its session is bound to and of
\* no other model, and ends the binding
OutcomeGoesToBoundModel ==
  \A s \in SessionKeys :
    (last'.op = "recordOutcome" /\ last'.key = s /\ s \in DOMAIN decisions) =>
      /\ last'.model = decisions[s].modelId
      /\ s \notin DOMAIN decisions'
      /\ \A m \in ModelIds \ {decisions[s].modelId} :
           /\ (m \in DOMAIN health') = (m \in DOMAIN health)
           /\ (m \in DOMAIN health) => health'[m] = health[m]
      /\ decisions[s].modelId \in DOMAIN health'

\* C36: a session has at most one pending decision: recordDecision for a
\* session that has one replaces it, and the next outcome reported for the
\* session goes to the model bound last; the health of the model bound
\* before is not changed by it.
C36_LatestBinding ==
  [][DecisionReplaces /\ BoundOnlyByRecordDecision /\ OutcomeGoesToBoundModel]_vars

\* A session bound to the first model has just been bound to the second one.
C36_Witness ==
  /\ last.op = "recordDecision"
  /\ last.replaced = <<IdA>>
  /\ last.model = IdB
  /\ decisions[last.key].modelId = IdB

\* ------------------------------------------------------------------------
\* C37
\* ------------------------------------------------------------------------
HasSlash(id) == \E i \in 1..Len(id) : id[i] = "/"

\* C37: for every model id with at least one "/", the id the hook records in
\* the health tracker, provider + "/" + model of the decision, the id having
\* been split at its first "/", is the id of the model selected from the
\* roster, which is the key isHealthy is asked about.
C37_RecordedIdIsModelId ==
  (ret # NoCall /\ HasSlash(call.id)) =>
    /\ ret.decision.override
    /\ ret.decision.provider =
         SubSeq(call.id, 1, (CHOOSE i \in 1..Len(call.id) :
                               call.id[i] = "/" /\ \A j \in 1..(i - 1) :
                                 call.id[j] # "/") - 1)
    /\ ret.recorded = <<call.id>>

\* An id with two "/" has been selected and recorded.
C37_Witness ==
  /\ ret # NoCall
  /\ call.id = <<"a", "/", "b", "/">>
  /\ ret.decision.provider = <<"a">>
  /\ ret.decision.model = <<"b", "/">>
  /\ ret.recorded = <<call.id>>

\* ------------------------------------------------------------------------
\* C38
\* ------------------------------------------------------------------------
\* A failure is consumed for m while m is open, within windowMs of the
\* failure before it.
LateFailureStep(m) ==
  /\ ConsumedStep(m, FALSE)
  /\ GetState(health, cfg, now, m) = "open"
  /\ now - prevFailAt[m] <= cfg.windowMs

LateFailureRestartsCooldown ==
  \A m \in ModelIds :
    LateFailureStep(m)
    => /\ health'[m].consecutiveFailures = health[m].consecutiveFailures + 1
       /\ health'[m].lastFailureAt = now
       /\ StateAfterStep(m) = "open"

\* A model at or above the threshold is open exactly until cooldownMs have
\* passed since the last failure consumed for it.
CooldownFromLatestFailure ==
  \A m \in DOMAIN health :
    health[m].consecutiveFailures >= cfg.failureThreshold
    => /\ health[m].lastFailureAt = prevFailAt[m]
       /\ (StateOf(m) = "open" <=> now - prevFailAt[m] < cfg.cooldownMs)
       /\ (StateOf(m) = "half-open" <=> now - prevFailAt[m] >= cfg.cooldownMs)

\* C38: a failure consumed for M while M is open, within windowMs of the
\* failure before it, adds 1 to consecutiveFailures and makes the current
\* time the start of the cooldown; in every state a model at or above the
\* threshold is open until cooldownMs after the last failure consumed for it
\* and half-open from then on.
C38_LateFailureRestartsCooldown ==
  []CooldownFromLatestFailure /\ [][LateFailureRestartsCooldown]_vars

\* One time unit after a late failure the model is still open: the cooldown
\* runs from the late failure, the second of the row.
C38_Witness ==
  /\ last.op = "tick"
  /\ cfg.failureThreshold = 1
  /\ cfg.cooldownMs = 2
  /\ IdA \in DOMAIN health
  /\ rowFails[IdA] = 2
  /\ health[IdA].consecutiveFailures = 2
  /\ prevFailAt[IdA] = now - 1
  /\ StateOf(IdA) = "open"

\* ------------------------------------------------------------------------
\* C39
\* ------------------------------------------------------------------------
\* C39: in every state and for every model with a health entry,
\* consecutiveFailures is a natural number and equals the number of failures
\* consumed for the model since the latest of its last consumed success, its
\* last reset (resetModel or resetAll) and its last failure that came more
\* than windowMs after the failure before it, that failure included: under
\* every interleaving of the sessions each consumed failure is counted once.
C39_CountsConsumedFailures ==
  \A m \in DOMAIN health :
    /\ health[m].consecutiveFailures \in Nat
    /\ health[m].consecutiveFailures = streak[m]

\* Three failures in a row from two sessions: the second came after the
\* window and restarted the count, the third was added to it.
C39_Witness ==
  /\ JustConsumed(IdA, FALSE)
  /\ last.key = "s2"
  /\ rowFails[IdA] = 3
  /\ ~rowOk[IdA]
  /\ streak[IdA] = 2
  /\ health[IdA].consecutiveFailures = 2

\* ------------------------------------------------------------------------
\* C40  RoutingCache: overlapping reads
\* ------------------------------------------------------------------------
\* Caller k has a get for agent a awaiting its store read or its return.
InFlight(k, a) == pc[k] \in {"reading", "read"} /\ req[k].agentId = a

\* A get that finds no fresh entry goes on to a store read whoever else is
\* reading for the same agent; the read that answers a get is the caller's
\* own findOne, and a get returns only after it.
OwnReadPerMiss ==
  \A k \in SessionKeys :
    /\ (last'.op = "get" /\ last'.caller = k) =>
         /\ last'.hit = CacheFresh(cache, now, ttlMs, last'.agentId)
         /\ ~last'.hit => /\ pc'[k] = "reading"
                          /\ req'[k].agentId = last'.agentId
    /\ (pc'[k] = "read" /\ pc[k] # "read") =>
         /\ pc[k] = "reading"
         /\ last'.op = "findOne" /\ last'.caller = k
    /\ (last'.op = "getDone" /\ last'.caller = k) => pc[k] = "read"

\* The read of caller k completes while the entry of its agent is fresh: an
\* overlapping read has completed since k's get found no fresh entry.
CompletesAfterOverlap(k) ==
  /\ last'.op = "getDone" /\ last'.caller = k
  /\ CacheFresh(cache, now, ttlMs, req[k].agentId)

\* After the step the agent's entry is the document k's read returned,
\* stamped with the current time.
HoldsReadOf(k) ==
  /\ req[k].agentId \in DOMAIN cache'
  /\ cache'[req[k].agentId] = [doc |-> req[k].doc, loadedAt |-> now]

\* C40 as stated: a get that finds no fresh entry issues its own store read
\* even when a read for the same agent is in flight, and when the later of
\* two overlapping reads completes the cache holds the document of that read,
\* stamped with the time of its completion.
C40_AsStated ==
  [][/\ OwnReadPerMiss
     /\ \A k \in SessionKeys : CompletesAfterOverlap(k) => HoldsReadOf(k)]_vars

\* C40: a get that finds no fresh entry issues its own store read even when
\* a read for the same agent is in flight; a read that completes with a
\* document replaces the agent's entry by that document stamped with the
\* time of completion, whatever an overlapping read stored before, and a
\* read that completes with null leaves the cache as it was, the entry an
\* overlapping read stored included.
C40_LastDocumentWins ==
  [][/\ OwnReadPerMiss
     /\ \A k \in SessionKeys :
          (last'.op = "getDone" /\ last'.caller = k) =>
            /\ ~IsNull(req[k].doc) => HoldsReadOf(k)
            /\ IsNull(req[k].doc) => cache' = cache
            /\ \A b \in DOMAIN cache \ {req[k].agentId} :
                 b \in DOMAIN cache' /\ cache'[b] = cache[b]]_vars

\* s2's get found no fresh entry and is still in flight; s1's get, made
\* later, found none either, read the store and returned one document; s2's
\* read was answered after a write and has now completed with another
\* document, which is the one in the cache, stamped with the current time.
C40_Witness ==
  /\ last.op = "getDone" /\ last.caller = "s2" /\ last.agentId = AgentId
  /\ ~IsNull(last.doc)
  /\ cacheLog.prev.made /\ cacheLog.prev.caller = "s1"
  /\ cacheLog.prev.missed /\ cacheLog.prev.returned
  /\ ~IsNull(cacheLog.prev.doc)
  /\ cacheLog.prev.doc # last.doc
  /\ cacheLog.prev.at < now
  /\ cacheLog.inval = "no"
  /\ cache[AgentId] = [doc |-> last.doc, loadedAt |-> now]

====
